---- MODULE Spec2Model ----
(***************************************************************************)
(* Model of the FilterManager of docs/js/modules/filter-manager.js and of  *)
(* the handlers of docs/js/modules/event-handlers.js that drive it.        *)
(*                                                                         *)
(* A JavaScript string is a sequence of characters.  A character that the  *)
(* code inspects (':' of a FilterId, '>' of a hierarchy path, the letters  *)
(* of a record name) is one element; a run of other characters of a facet  *)
(* value is kept as one element ("kitchen").  An absent property of a       *)
(* record (undefined) is a field missing from the record's DOMAIN.         *)
(*                                                                         *)
(* The record collection is handed to the constructor once and is never    *)
(* written afterwards, so the state holds which collection was loaded      *)
(* (loaded); this.datasets and this.filterGroups are read through it.      *)
(***************************************************************************)
EXTENDS Integers, Sequences, FiniteSets, TLC

VARIABLES loaded, selectedFilters, pendingFilterUpdate,
          timers, lastOp, ret, selBefore, trig, sinceMut,
          sigSinceMut, dispatched, sched, twice,
          tooltipTimeout, tipTimers, tooltipShown,
          userOn, lastOn, arg, res,
          tooltipElement, filterCounts,
          filterFinderMatches, filterFinderCurrentIndex,
          finderInput, collapsed, searchHidden

\* the tooltip of the filter options
tipVars == <<tooltipTimeout, tipTimers, tooltipShown>>
\* what the user did to each FilterId
histVars == <<userOn, lastOn>>
\* argument and result of a call made on a manager of its own
callVars == <<arg, res>>
\* the tooltip element and the count cache
countVars == <<tooltipElement, filterCounts>>
\* the filter finder, its input box and the classes it sets on the options
finderVars == <<filterFinderMatches, filterFinderCurrentIndex,
                finderInput, collapsed, searchHidden>>

vars == <<loaded, selectedFilters, pendingFilterUpdate,
          timers, lastOp, ret, selBefore, trig, sinceMut,
          sigSinceMut, dispatched, sched, twice,
          tooltipTimeout, tipTimers, tooltipShown,
          userOn, lastOn, arg, res,
          tooltipElement, filterCounts,
          filterFinderMatches, filterFinderCurrentIndex,
          finderInput, collapsed, searchHidden>>

(***************************************************************************)
(* Bounds of the model.                                                    *)
(***************************************************************************)
\* milliseconds by which one Tick step advances the clock
TickMs == 75
\* longest text query handed to applyFilters
MaxQueryLen == 2

(***************************************************************************)
(* Program constants.                                                      *)
(***************************************************************************)
\* quiet period of the debounce timer, in milliseconds
DebounceDelay == 150

Max(a, b) == IF a >= b THEN a ELSE b
Min(a, b) == IF a <= b THEN a ELSE b

(***************************************************************************)
(* Strings.                                                                *)
(***************************************************************************)
COLON == ":"
GT == ">"

\* String.prototype.toLowerCase, on the letters the record names use
LowerChar(c) ==
    CASE c = "K" -> "k"
      [] c = "A" -> "a"
      [] c = "B" -> "b"
      [] OTHER -> c

toLowerCase(s) == [i \in 1..Len(s) |-> LowerChar(s[i])]

\* String.prototype.includes: sub occurs in s as a contiguous substring
includes(s, sub) ==
    \E i \in 0..(Len(s) - Len(sub)) :
        \A j \in 1..Len(sub) : s[i + j] = sub[j]

\* String.prototype.split(sep) for a one-character separator
split(s, sep) ==
    LET F[i \in 0..Len(s)] ==
            IF i = 0 THEN << <<>> >>
            ELSE LET parts == F[i - 1]
                 IN  IF s[i] = sep THEN Append(parts, <<>>)
                     ELSE [parts EXCEPT ![Len(parts)] = Append(@, s[i])]
    IN  F[Len(s)]

\* the template literal `${filterKey}:${filterValue}`
FilterIdOf(filterKey, filterValue) == filterKey \o <<COLON>> \o filterValue

\* the template literal `${parentPath}>${value}` applied along a node path
RECURSIVE JoinPath(_)
JoinPath(p) ==
    IF Len(p) = 0 THEN <<>>
    ELSE IF Len(p) = 1 THEN p[1]
    ELSE JoinPath(SubSeq(p, 1, Len(p) - 1)) \o <<GT>> \o p[Len(p)]

\* Array.prototype.indexOf, 1-based; 0 when absent
indexOf(arr, x) ==
    IF \E i \in 1..Len(arr) : arr[i] = x
    THEN CHOOSE i \in 1..Len(arr) :
            arr[i] = x /\ \A j \in 1..(i - 1) : arr[j] # x
    ELSE 0

Range(f) == {f[i] : i \in DOMAIN f}

lastOf(p) == p[Len(p)]

(***************************************************************************)
(* Record collections handed to the constructor.                           *)
(***************************************************************************)
kitchen == <<"kitchen">>
lab == <<"lab">>
arm1 == <<"arm1">>
arm2 == <<"arm2">>
grip == <<"grip">>
pick == <<"pick">>
tools == <<"tools">>
drill == <<"drill">>
va == <<"a">>
vb == <<"b">>
vc == <<"c">>
vd == <<"d">>

\* A and B of the example, and a record without scenes and objects
CollScene ==
    << [path |-> <<"p1">>, name |-> <<"K", "a">>,
        scenes |-> <<kitchen>>,
        robot |-> [isArray |-> FALSE, items |-> <<arm1>>],
        endEffector |-> grip,
        objects |-> << [hierarchy |-> <<tools, drill>>] >>],
       [path |-> <<"p2">>, name |-> <<"k", "B">>,
        scenes |-> <<kitchen>>,
        robot |-> [isArray |-> TRUE, items |-> <<arm2>>],
        objects |-> << [hierarchy |-> <<tools>>] >>],
       [path |-> <<"p3">>, name |-> <<"a", "b">>,
        robot |-> [isArray |-> TRUE, items |-> <<arm1, arm2>>],
        endEffector |-> grip,
        actions |-> <<>>] >>

\* the tree a > {b(leaf), c > {d(leaf)}}
CollTree ==
    << [path |-> <<"q1">>, name |-> <<"A", "b">>,
        scenes |-> <<lab>>,
        actions |-> <<pick>>,
        objects |-> << [hierarchy |-> <<va, vb>>] >>],
       [path |-> <<"q2">>, name |-> <<"b", "a">>,
        scenes |-> <<lab, lab>>,
        objects |-> << [hierarchy |-> <<va, vc, vd>>],
                       [hierarchy |-> <<>>] >>],
       [path |-> <<"q3">>, name |-> <<"K">>,
        actions |-> <<pick, pick>>,
        objects |-> <<>>] >>

\* values written letter by letter, for the filter finder: the scene ab,
\* the robot c, and the tree {b > Ba, a} whose root b is set before a
vab == <<"a", "b">>
vBa == <<"B", "a">>
CollFind ==
    << [path |-> <<"f1">>, name |-> <<"a">>,
        scenes |-> <<vab>>,
        objects |-> << [hierarchy |-> <<vb, vBa>>] >>],
       [path |-> <<"f2">>, name |-> <<"b">>,
        robot |-> [isArray |-> FALSE, items |-> <<vc>>],
        objects |-> << [hierarchy |-> <<va>>] >>] >>

\* a tree in which a segment value occurs twice on one path:
\* a > {a > {c(leaf)}, b(leaf)}
CollRep ==
    << [path |-> <<"s1">>, name |-> <<"a">>,
        scenes |-> <<lab>>,
        objects |-> << [hierarchy |-> <<va, va, vc>>] >>],
       [path |-> <<"s2">>, name |-> <<"b">>,
        objects |-> << [hierarchy |-> <<va, vb>>] >>] >>

\* a tree in which the leaf value c occurs under two parents:
\* a > {c(leaf)}, b > {c(leaf)}
CollTwin ==
    << [path |-> <<"t1">>, name |-> <<"a">>,
        scenes |-> <<lab>>,
        objects |-> << [hierarchy |-> <<va, vc>>] >>],
       [path |-> <<"t2">>, name |-> <<"b">>,
        objects |-> << [hierarchy |-> <<vb, vc>>] >>] >>

Collections == {"scene", "tree"}

CollectionOf(c) ==
    IF c = "scene" THEN CollScene
    ELSE IF c = "find" THEN CollFind
    ELSE IF c = "rep" THEN CollRep
    ELSE IF c = "twin" THEN CollTwin
    ELSE CollTree

Has(ds, field) == field \in DOMAIN ds

(***************************************************************************)
(* Facet Tree Builder.                                                     *)
(***************************************************************************)
keyScene == <<"scene">>
keyRobot == <<"robot">>
keyEnd == <<"end">>
keyAction == <<"action">>
keyObject == <<"object">>

\* The hierarchy Map: a node is named by its path from the root and carries
\* its isLeaf flag; the children of a node are the nodes one segment longer.
\* addToHierarchy that skips a path whose first segment is already a root
addToHierarchy_skipKnownRoot(hierarchyMap, levels) ==
    IF Len(levels) = 0 \/ SubSeq(levels, 1, 1) \in DOMAIN hierarchyMap
    THEN hierarchyMap
    ELSE [q \in (DOMAIN hierarchyMap)
                 \cup {SubSeq(levels, 1, idx) : idx \in 1..Len(levels)} |->
             IF q \in DOMAIN hierarchyMap THEN hierarchyMap[q]
             ELSE Len(q) = Len(levels)]

\* addToHierarchy that creates every node with isLeaf = false
addToHierarchy_noLeafFlag(hierarchyMap, levels) ==
    [q \in (DOMAIN hierarchyMap)
            \cup {SubSeq(levels, 1, idx) : idx \in 1..Len(levels)} |->
        IF q \in DOMAIN hierarchyMap THEN hierarchyMap[q] ELSE FALSE]

addToHierarchy(hierarchyMap, levels) ==
    LET F[idx \in 0..Len(levels)] ==
            IF idx = 0 THEN hierarchyMap
            ELSE LET p == SubSeq(levels, 1, idx)
                     current == F[idx - 1]
                 IN  IF p \in DOMAIN current THEN current
                     ELSE [q \in (DOMAIN current) \cup {p} |->
                              IF q = p THEN idx = Len(levels)
                              ELSE current[q]]
    IN  F[Len(levels)]

\* ds.objects.forEach(obj => this.addToHierarchy(groups.object.values, obj.hierarchy))
\* (addToHierarchy returns at once when levels is undefined or empty)
addObjects(hierarchyMap, objects) ==
    LET F[i \in 0..Len(objects)] ==
            IF i = 0 THEN hierarchyMap
            ELSE IF Has(objects[i], "hierarchy")
                 THEN addToHierarchy(F[i - 1], objects[i].hierarchy)
                 ELSE F[i - 1]
    IN  F[Len(objects)]

\* robotsOf that keeps the first robot of an array only
robotsOf_first(ds) == <<ds.robot.items[1]>>

robotsOf(ds) ==
    IF ds.robot.isArray THEN ds.robot.items ELSE <<ds.robot.items[1]>>

buildFilterGroups(dss) ==
    LET flat(vals) == [type |-> "flat", values |-> vals]
        sceneVals == UNION {Range(dss[i].scenes) :
                              i \in {j \in 1..Len(dss) : Has(dss[j], "scenes")}}
        robotVals == UNION {Range(robotsOf(dss[i])) :
                              i \in {j \in 1..Len(dss) : Has(dss[j], "robot")}}
        endVals == {dss[i].endEffector :
                      i \in {j \in 1..Len(dss) :
                               Has(dss[j], "endEffector")
                               /\ dss[j].endEffector # <<>>}}
        actionVals == UNION {Range(dss[i].actions) :
                               i \in {j \in 1..Len(dss) : Has(dss[j], "actions")}}
        T[i \in 0..Len(dss)] ==
            IF i = 0 THEN <<>>
            ELSE IF Has(dss[i], "objects")
                 THEN addObjects(T[i - 1], dss[i].objects)
                 ELSE T[i - 1]
    IN  (keyScene :> flat(sceneVals)) @@ (keyRobot :> flat(robotVals))
        @@ (keyEnd :> flat(endVals)) @@ (keyAction :> flat(actionVals))
        @@ (keyObject :> [type |-> "hierarchical", values |-> T[Len(dss)]])

\* node.children of the node at path p (the root Map for p = <<>>)
childrenOf(tree, p) ==
    {q \in DOMAIN tree : Len(q) = Len(p) + 1 /\ SubSeq(q, 1, Len(p)) = p}

GroupsScene == buildFilterGroups(CollScene)
GroupsTree == buildFilterGroups(CollTree)
GroupsFind == buildFilterGroups(CollFind)
GroupsRep == buildFilterGroups(CollRep)
GroupsTwin == buildFilterGroups(CollTwin)

\* this.datasets and this.filterGroups after construction and
\* buildFilterGroups()
datasets == CollectionOf(loaded)
filterGroups ==
    IF loaded = "scene" THEN GroupsScene
    ELSE IF loaded = "find" THEN GroupsFind
    ELSE IF loaded = "rep" THEN GroupsRep
    ELSE IF loaded = "twin" THEN GroupsTwin
    ELSE GroupsTree

(***************************************************************************)
(* Change-Notification Scheduler.                                          *)
(* pendingFilterUpdate is 0 for null, else the id setTimeout returned.     *)
(* timers maps the id of every timer that is set and has neither run nor   *)
(* been cleared to the milliseconds left before it is due.                 *)
(***************************************************************************)
null == 0

\* setTimeout returns an id that no pending timer has.  The ids are opaque
\* handles, so the model hands out the least free one.
freshId(tm) ==
    CHOOSE id \in 1..(Cardinality(DOMAIN tm) + 1) :
        /\ id \notin DOMAIN tm
        /\ \A j \in 1..(id - 1) : j \in DOMAIN tm

clearTimeout(tm, id) == [t \in (DOMAIN tm) \ {id} |-> tm[t]]

\* scheduleFilterUpdate that sets the new timer without clearing the old one
scheduleFilterUpdate_noClear(sch) ==
    LET id == freshId(sch.timers)
    IN  [pending |-> id,
         timers |-> [t \in (DOMAIN sch.timers) \cup {id} |->
                        IF t = id THEN DebounceDelay ELSE sch.timers[t]]]

\* scheduleFilterUpdate that returns when it holds a handle already
scheduleFilterUpdate_keepPending(sch) ==
    IF sch.pending # null
    THEN sch
    ELSE LET id == freshId(sch.timers)
         IN  [pending |-> id,
              timers |-> [t \in (DOMAIN sch.timers) \cup {id} |->
                             IF t = id THEN DebounceDelay ELSE sch.timers[t]]]

scheduleFilterUpdate(sch) ==
    LET cleared == IF sch.pending # null
                   THEN clearTimeout(sch.timers, sch.pending)
                   ELSE sch.timers
        id == freshId(cleared)
    IN  [pending |-> id,
         timers |-> [t \in (DOMAIN cleared) \cup {id} |->
                        IF t = id THEN DebounceDelay ELSE cleared[t]]]

\* n successive calls of scheduleFilterUpdate
RECURSIVE scheduleTimes(_, _)
scheduleTimes(sch, n) ==
    IF n = 0 THEN sch ELSE scheduleTimes(scheduleFilterUpdate(sch), n - 1)

(***************************************************************************)
(* Predicate Evaluator.                                                    *)
(***************************************************************************)
\* the filters object collected from selectedFilters: key -> selected values
collectFilters(sel) ==
    LET keyOf(fid) == split(fid, COLON)[1]
        valueOf(fid) == split(fid, COLON)[2]
    IN  [k \in {keyOf(fid) : fid \in sel} |->
            {valueOf(fid) : fid \in {f \in sel : keyOf(f) = k}}]

\* matchKey with the object group compared on the leaf segment only
matchKey_leafOnly(ds, key, values) ==
    IF key = keyScene
    THEN Has(ds, "scenes") /\ \E v \in Range(ds.scenes) : v \in values
    ELSE IF key = keyRobot
    THEN Has(ds, "robot") /\ \E r \in Range(robotsOf(ds)) : r \in values
    ELSE IF key = keyEnd
    THEN Has(ds, "endEffector") /\ ds.endEffector \in values
    ELSE IF key = keyAction
    THEN Has(ds, "actions") /\ \E a \in Range(ds.actions) : a \in values
    ELSE IF key = keyObject
    THEN Has(ds, "objects")
         /\ \E obj \in Range(ds.objects) :
               Len(obj.hierarchy) > 0 /\ lastOf(obj.hierarchy) \in values
    ELSE FALSE

matchKey(ds, key, values) ==
    IF key = keyScene
    THEN Has(ds, "scenes") /\ \E v \in Range(ds.scenes) : v \in values
    ELSE IF key = keyRobot
    THEN Has(ds, "robot") /\ \E r \in Range(robotsOf(ds)) : r \in values
    ELSE IF key = keyEnd
    THEN Has(ds, "endEffector") /\ ds.endEffector \in values
    ELSE IF key = keyAction
    THEN Has(ds, "actions") /\ \E a \in Range(ds.actions) : a \in values
    ELSE IF key = keyObject
    THEN Has(ds, "objects")
         /\ \E obj \in Range(ds.objects) :
               \E h \in Range(obj.hierarchy) : h \in values
    ELSE FALSE

\* passesFilter with the groups joined by OR
passesFilter_anyGroup(ds, filters, searchQuery) ==
    /\ ~(searchQuery # <<>>
         /\ ~includes(toLowerCase(ds.name), toLowerCase(searchQuery)))
    /\ (DOMAIN filters = {}
        \/ \E key \in DOMAIN filters : matchKey(ds, key, filters[key]))

\* passesFilter with the name compared as written
passesFilter_caseSensitive(ds, filters, searchQuery) ==
    /\ ~(searchQuery # <<>> /\ ~includes(ds.name, searchQuery))
    /\ \A key \in DOMAIN filters : matchKey(ds, key, filters[key])

passesFilter(ds, filters, searchQuery) ==
    /\ ~(searchQuery # <<>>
         /\ ~includes(toLowerCase(ds.name), toLowerCase(searchQuery)))
    /\ \A key \in DOMAIN filters : matchKey(ds, key, filters[key])

\* applyFilters returning the matches last to first
applyFilters_reversed(dss, sel, searchQuery) ==
    LET filters == collectFilters(sel)
        keep(ds) == passesFilter(ds, filters, searchQuery)
        kept == SelectSeq(dss, keep)
    IN  [i \in 1..Len(kept) |-> kept[Len(kept) + 1 - i]]

applyFilters(dss, sel, searchQuery) ==
    LET filters == collectFilters(sel)
        keep(ds) == passesFilter(ds, filters, searchQuery)
    IN  SelectSeq(dss, keep)

(***************************************************************************)
(* Bulk selection over the hierarchy.                                      *)
(***************************************************************************)
\* selectAllInHierarchy that adds every node, leaf-flagged or not
selectAllInHierarchy_allNodes(groupKey, tree, parent) ==
    {FilterIdOf(groupKey, lastOf(p)) :
        p \in {q \in DOMAIN tree :
                 Len(q) > Len(parent) /\ SubSeq(q, 1, Len(parent)) = parent}}

\* the FilterIds selectAllInHierarchy adds, starting from the children of
\* the node at path parent
RECURSIVE selectAllInHierarchy(_, _, _)
selectAllInHierarchy(groupKey, tree, parent) ==
    UNION { (IF tree[p] THEN {FilterIdOf(groupKey, lastOf(p))} ELSE {})
            \cup (IF childrenOf(tree, p) # {}
                  THEN selectAllInHierarchy(groupKey, tree, p) ELSE {})
            : p \in childrenOf(tree, parent) }

\* leafNodesRecursive that touches every node below parent
leafNodesRecursive_allNodes(groupKey, tree, parent) ==
    {FilterIdOf(groupKey, lastOf(p)) :
        p \in {q \in DOMAIN tree :
                 Len(q) > Len(parent) /\ SubSeq(q, 1, Len(parent)) = parent}}

\* the FilterIds selectLeafNodesRecursive / clearLeafNodesRecursive touch
RECURSIVE leafNodesRecursive(_, _, _)
leafNodesRecursive(groupKey, tree, parent) ==
    UNION { (IF tree[p] \/ childrenOf(tree, p) = {}
             THEN {FilterIdOf(groupKey, lastOf(p))} ELSE {})
            \cup (IF childrenOf(tree, p) # {}
                  THEN leafNodesRecursive(groupKey, tree, p) ELSE {})
            : p \in childrenOf(tree, parent) }

\* findHierarchyNode that stops at the deepest node it could reach
findHierarchyNode_deepest(tree, path) ==
    LET parts == split(path, GT)
        found == {i \in 1..Len(parts) : SubSeq(parts, 1, i) \in DOMAIN tree}
    IN  IF found = {} THEN <<>>
        ELSE SubSeq(parts, 1, CHOOSE i \in found : \A j \in found : j <= i)

\* the path of the node found, <<>> for null
findHierarchyNode(tree, path) ==
    LET parts == split(path, GT)
        F[i \in 1..(Len(parts) + 1)] ==
            IF i > Len(parts) THEN <<>>
            ELSE IF SubSeq(parts, 1, i) \notin DOMAIN tree THEN <<>>
            ELSE IF indexOf(parts, parts[i]) = Len(parts)
                 THEN SubSeq(parts, 1, i)
            ELSE F[i + 1]
    IN  F[1]

(***************************************************************************)
(* State machine.                                                          *)
(*   lastOp      the last operation called on the FilterManager            *)
(*   ret         what that call returned                                   *)
(*   selBefore   selectedFilters when that call started                    *)
(*   trig        how often that call called scheduleFilterUpdate           *)
(*   sinceMut    milliseconds since a call last (re)started or cancelled   *)
(*               the debounce, up to DebounceDelay                         *)
(*   sigSinceMut 'filtersChanged' events the debounce callback dispatched  *)
(*               since that moment (counted up to 2)                       *)
(*   dispatched  who dispatched 'filtersChanged' in the last step          *)
(*   sched       the last call that touched the debounce timer: "new"      *)
(*               before any, "schedule" or "reset"; and whether it         *)
(*               cleared a timer that was still pending                    *)
(*   twice       <<>>, or, when the last call was a toggle of the FilterId *)
(*               that the call before it toggled, selectedFilters before   *)
(*               and the scheduleFilterUpdate calls of that earlier call   *)
(***************************************************************************)
undefined == [kind |-> "undefined", v |-> <<>>]
arrayOf(recs) == [kind |-> "array", v |-> recs]

GroupKeys == {keyScene, keyRobot, keyEnd, keyAction, keyObject}

\* the (key, value) pairs of the rendered filter options
Options(groups) ==
    UNION {{<<k, v>> : v \in groups[k].values} :
             k \in {g \in DOMAIN groups : groups[g].type = "flat"}}
    \cup {<<keyObject, lastOf(p)>> : p \in DOMAIN groups[keyObject].values}

\* a path whose segment "zz" is in no tree: its first segment is absent from
\* one collection's tree, its second segment from the other's
absentPath == JoinPath(<<va, <<"zz">>>>)
\* a key that filterGroups does not have
keyUnknown == <<"color">>

\* the data-path attributes of the hierarchy buttons, and a path that is
\* not in the tree
Paths(groups) ==
    {JoinPath(p) : p \in DOMAIN groups[keyObject].values}
    \cup {absentPath}

\* the (key, path) arguments of the hierarchy buttons, and a call on a flat
\* group and on an unknown group
PathArgs(groups) ==
    {<<keyObject, path>> : path \in Paths(groups)}
    \cup {<<keyScene, va>>, <<keyUnknown, va>>}

\* the text queries of the search box
Chars == {"a", "B"}
Queries == UNION {[1..n -> Chars] : n \in 0..MaxQueryLen}

(***************************************************************************)
(* The rendered filter groups.                                             *)
(* A wrapper (.filter-option-wrapper) is named by the key of its group     *)
(* followed by the path of its option below the group: <<key>> is the      *)
(* wrapper of the group's title, <<key, value>> a flat option, and         *)
(* <<key, s1, ..., sn>> the hierarchy node s1 > ... > sn.  An option       *)
(* element is named like its wrapper, and a .filter-children container     *)
(* like the wrapper that holds it.                                         *)
(***************************************************************************)
RECURSIVE Flatten(_)
Flatten(qs) ==
    IF Len(qs) = 0 THEN <<>> ELSE Head(qs) \o Flatten(Tail(qs))

\* the keys of the groups literal, as Object.entries yields them
GroupOrder == <<keyScene, keyRobot, keyEnd, keyAction, keyObject>>

\* the collation of localeCompare on the characters the values use:
\* letters in alphabetical order whatever their case
CollationOrder ==
    <<":", "a", "arm1", "arm2", "b", "c", "d", "drill", "grip", "k",
      "kitchen", "lab", "pick", "tools", "x", "zz">>
primaryRank(c) == indexOf(CollationOrder, LowerChar(c))
caseRank(c) == IF LowerChar(c) = c THEN 0 ELSE 1

\* -1, 0 or 1 as sequence a of numbers comes before, with or after b
compareRanks(a, b) ==
    LET n == Min(Len(a), Len(b))
        diff == {i \in 1..n : a[i] # b[i]}
    IN  IF diff = {}
        THEN (IF Len(a) < Len(b) THEN -1 ELSE IF Len(a) > Len(b) THEN 1 ELSE 0)
        ELSE LET i == CHOOSE k \in diff : \A j \in diff : k <= j
             IN  IF a[i] < b[i] THEN -1 ELSE 1

\* String.prototype.localeCompare: by letters first, lower case before
\* upper case between strings of the same letters
localeCompare(a, b) ==
    LET pa == [i \in 1..Len(a) |-> primaryRank(a[i])]
        pb == [i \in 1..Len(b) |-> primaryRank(b[i])]
    IN  IF compareRanks(pa, pb) # 0 THEN compareRanks(pa, pb)
        ELSE compareRanks([i \in 1..Len(a) |-> caseRank(a[i])],
                          [i \in 1..Len(b) |-> caseRank(b[i])])

\* the elements of q, each at its first occurrence
firstOccurrences(q) ==
    LET keep == {i \in 1..Len(q) : \A j \in 1..(i - 1) : q[j] # q[i]}
        F[i \in 0..Len(q)] ==
            IF i = 0 THEN <<>>
            ELSE IF i \in keep THEN Append(F[i - 1], q[i]) ELSE F[i - 1]
    IN  F[Len(q)]

\* the node paths of the hierarchy Map in the order addToHierarchy set
\* them: record by record, object entry by object entry, level by level
insertionOrder(dss) ==
    LET objectsOf(ds) == IF Has(ds, "objects") THEN ds.objects ELSE <<>>
        levelsOf(obj) == IF Has(obj, "hierarchy") THEN obj.hierarchy ELSE <<>>
        prefixes(levels) == [i \in 1..Len(levels) |-> SubSeq(levels, 1, i)]
        ofRecord(ds) ==
            Flatten([j \in 1..Len(objectsOf(ds)) |->
                        prefixes(levelsOf(objectsOf(ds)[j]))])
    IN  firstOccurrences(Flatten([i \in 1..Len(dss) |-> ofRecord(dss[i])]))

\* map.entries() of the children Map of node p: insertion order
entries(order, p) ==
    LET isChild(q) == Len(q) = Len(p) + 1 /\ SubSeq(q, 1, Len(p)) = p
    IN  SelectSeq(order, isChild)

\* the sort left out: the entries as the Map yields them
sortedEntries_unsorted(es) == es

\* Array.from(map.entries()).sort((a, b) => a[0].localeCompare(b[0]))
sortedEntries(es) ==
    LET place(e) ==
            1 + Cardinality({i \in 1..Len(es) :
                               localeCompare(lastOf(es[i]), lastOf(e)) < 0})
    IN  [i \in 1..Len(es) |->
            es[CHOOSE k \in 1..Len(es) : place(es[k]) = i]]

\* buildHierarchyHTML(map, level, parentPath): the option of each entry,
\* followed by the options of its children
RECURSIVE buildHierarchyHTML(_, _)
buildHierarchyHTML(order, parentPath) ==
    LET sorted == sortedEntries(entries(order, parentPath))
    IN  Flatten([i \in 1..Len(sorted) |->
                    <<sorted[i]>> \o buildHierarchyHTML(order, sorted[i])])

\* the values of a flat group in the order its options are rendered
flatOptionOrder(values) ==
    sortedEntries(CHOOSE q \in [1..Cardinality(values) -> {<<v>> : v \in values}] :
                      Range(q) = {<<v>> : v \in values})

\* the option elements of the groups of dss that carry a label, in document
\* order (querySelectorAll('.filter-option'))
allOptions(dss) ==
    LET groups == buildFilterGroups(dss)
        ofGroup(key) ==
            IF groups[key].type = "flat"
            THEN LET vs == flatOptionOrder(groups[key].values)
                 IN  [i \in 1..Len(vs) |-> <<key>> \o vs[i]]
            ELSE LET ps == buildHierarchyHTML(insertionOrder(dss), <<>>)
                 IN  [i \in 1..Len(ps) |-> <<key>> \o ps[i]]
    IN  Flatten([g \in 1..Len(GroupOrder) |-> ofGroup(GroupOrder[g])])

\* every wrapper: those of the options and those of the group titles
allWrappers(dss) == Range(allOptions(dss)) \cup {<<key>> : key \in GroupKeys}

\* the wrappers that hold a .filter-children container: the groups and the
\* hierarchy nodes with children
Containers(dss) ==
    {w \in allWrappers(dss) :
        Len(w) = 1 \/ \E x \in allWrappers(dss) :
                         Len(x) = Len(w) + 1 /\ SubSeq(x, 1, Len(w)) = w}

\* the text of the label element of option w
labelOf(w) == lastOf(w)
\* dataset.filter and dataset.value of option w
datasetFilter(w) == w[1]
datasetValue(w) == lastOf(w)

\* the containers and the group wrapper above wrapper w
ancestorsOf(w) == {SubSeq(w, 1, n) : n \in 1..(Len(w) - 1)}

TypeError == [kind |-> "TypeError", v |-> <<>>]

\* the match that looks at the last segment of each hierarchy only
objectMatch_leafOnly(ds, filterValue) ==
    IF ~Has(ds, "objects") THEN "false"
    ELSE IF \E j \in 1..Len(ds.objects) :
               /\ Has(ds.objects[j], "hierarchy")
               /\ ds.objects[j].hierarchy # <<>>
               /\ lastOf(ds.objects[j].hierarchy) = filterValue
         THEN "true" ELSE "false"

\* ds.objects && ds.objects.some(obj => obj.hierarchy.includes(filterValue)):
\* "true", "false", or "TypeError" when an entry without hierarchy is
\* reached before an entry that matches
objectMatch(ds, filterValue) ==
    IF ~Has(ds, "objects") THEN "false"
    ELSE LET objs == ds.objects
             bad == {j \in 1..Len(objs) : ~Has(objs[j], "hierarchy")}
             hit == {j \in 1..Len(objs) :
                       /\ Has(objs[j], "hierarchy")
                       /\ filterValue \in Range(objs[j].hierarchy)}
         IN  IF \E b \in bad : \A h \in hit : b < h THEN "TypeError"
             ELSE IF hit # {} THEN "true"
             ELSE "false"

\* the match of calculateAffectedCount for one record
countMatch(ds, filterKey, filterValue) ==
    IF filterKey = keyScene
    THEN IF Has(ds, "scenes") /\ filterValue \in Range(ds.scenes)
         THEN "true" ELSE "false"
    ELSE IF filterKey = keyRobot
    THEN IF Has(ds, "robot") /\ filterValue \in Range(robotsOf(ds))
         THEN "true" ELSE "false"
    ELSE IF filterKey = keyEnd
    THEN IF Has(ds, "endEffector") /\ ds.endEffector = filterValue
         THEN "true" ELSE "false"
    ELSE IF filterKey = keyAction
    THEN IF Has(ds, "actions") /\ filterValue \in Range(ds.actions)
         THEN "true" ELSE "false"
    ELSE IF filterKey = keyObject
    THEN objectMatch(ds, filterValue)
    ELSE "false"

\* the number returned, or TypeError when the match of a record raises
calculateAffectedCount(dss, filterKey, filterValue) ==
    IF \E i \in 1..Len(dss) :
          countMatch(dss[i], filterKey, filterValue) = "TypeError"
    THEN TypeError
    ELSE [kind |-> "number",
          v |-> Cardinality({i \in 1..Len(dss) :
                  countMatch(dss[i], filterKey, filterValue) = "true"})]

\* this.filterCounts after updateFilterCounts, or TypeError
updateFilterCounts(dss, groups) ==
    LET opts == Options(groups)
        idOf(o) == FilterIdOf(o[1], o[2])
    IN  IF \E o \in opts :
              calculateAffectedCount(dss, o[1], o[2]).kind = "TypeError"
        THEN TypeError
        ELSE [kind |-> "counts",
              v |-> [filterId \in {idOf(o) : o \in opts} |->
                       LET o == CHOOSE x \in opts : idOf(x) = filterId
                       IN  calculateAffectedCount(dss, o[1], o[2]).v]]

\* updateFilterCounts() on this.datasets: this.filterCounts afterwards (no
\* collection the panel is loaded with has an object entry without hierarchy)
recount_filtered ==
    updateFilterCounts(applyFilters(datasets, selectedFilters, <<>>),
                       filterGroups).v

\* updateFilterCounts() on this.datasets, once per collection
CountsScene == updateFilterCounts(CollScene, GroupsScene).v
CountsTree == updateFilterCounts(CollTree, GroupsTree).v
CountsFind == updateFilterCounts(CollFind, GroupsFind).v
CountsRep == updateFilterCounts(CollRep, GroupsRep).v
CountsTwin == updateFilterCounts(CollTwin, GroupsTwin).v

recount ==
    IF loaded = "scene" THEN CountsScene
    ELSE IF loaded = "find" THEN CountsFind
    ELSE IF loaded = "rep" THEN CountsRep
    ELSE IF loaded = "twin" THEN CountsTwin
    ELSE CountsTree

\* the fields of the filter panel after construction
panelStart ==
    /\ selectedFilters = {}
    /\ pendingFilterUpdate = null
    /\ timers = <<>>
    /\ lastOp = [op |-> "new", a |-> <<>>, b |-> <<>>]
    /\ ret = undefined
    /\ selBefore = {}
    /\ trig = 0
    /\ sinceMut = 0
    /\ sigSinceMut = 0
    /\ dispatched = "none"
    /\ sched = [by |-> "new", cleared |-> FALSE]
    /\ twice = <<>>

\* the filter panel after construction with one of the collections
panelInit ==
    /\ loaded \in Collections
    /\ panelStart

\* the filter finder after renderFilterGroups: no search, and every
\* container collapsed but that of the first group
finderInit ==
    /\ filterFinderMatches = <<>>
    /\ filterFinderCurrentIndex = -1
    /\ finderInput = <<>>
    /\ collapsed = Containers(datasets) \ {<<GroupOrder[1]>>}
    /\ searchHidden = {}

\* the dropdown has been opened (initializeTooltips): the tooltip element
\* exists and the counts are cached; no tooltip, no user action yet
auxInit ==
    /\ tooltipTimeout = null
    /\ tipTimers = <<>>
    /\ tooltipShown = <<>>
    /\ userOn = {}
    /\ lastOn = {}
    /\ tooltipElement = TRUE
    /\ filterCounts = recount
    /\ finderInit

Init ==
    /\ panelInit
    /\ auxInit
    /\ arg = <<>>
    /\ res = undefined

\* the bookkeeping of a call that called scheduleFilterUpdate n times
Called(op, a, b, r, n) ==
    /\ lastOp' = [op |-> op, a |-> a, b |-> b]
    /\ ret' = r
    /\ selBefore' = selectedFilters
    /\ trig' = n
    /\ LET sch == scheduleTimes([pending |-> pendingFilterUpdate,
                                 timers |-> timers], n)
       IN  /\ pendingFilterUpdate' = sch.pending
           /\ timers' = sch.timers
    /\ IF n > 0
       THEN /\ sinceMut' = 0
            /\ sigSinceMut' = 0
            /\ sched' = [by |-> "schedule",
                         cleared |-> pendingFilterUpdate \in DOMAIN timers]
       ELSE UNCHANGED <<sinceMut, sigSinceMut, sched>>
    /\ dispatched' = "none"
    /\ twice' = IF op = "toggle" /\ lastOp = [op |-> op, a |-> a, b |-> b]
                THEN <<[sel |-> selBefore, trig |-> trig]>>
                ELSE <<>>
    /\ UNCHANGED loaded

\* toggleFilterSelection that makes the option the only selected one
toggleFilterSelection_exclusive(filterKey, filterValue) ==
    LET filterId == FilterIdOf(filterKey, filterValue)
    IN  /\ selectedFilters' =
              IF filterId \in selectedFilters
              THEN selectedFilters \ {filterId}
              ELSE {filterId}
        /\ Called("toggle", filterKey, filterValue, undefined, 1)

\* toggleFilterSelection that never deselects
toggleFilterSelection_addOnly(filterKey, filterValue) ==
    LET filterId == FilterIdOf(filterKey, filterValue)
    IN  /\ selectedFilters' = selectedFilters \cup {filterId}
        /\ Called("toggle", filterKey, filterValue, undefined, 1)

toggleFilterSelection(filterKey, filterValue) ==
    LET filterId == FilterIdOf(filterKey, filterValue)
    IN  /\ selectedFilters' =
              IF filterId \in selectedFilters
              THEN selectedFilters \ {filterId}
              ELSE selectedFilters \cup {filterId}
        /\ Called("toggle", filterKey, filterValue, undefined, 1)

\* removeFilterTagById that removes the tag and keeps the FilterId
removeFilterTagById_keepId(filterId) ==
    /\ filterId \in selectedFilters
    /\ UNCHANGED selectedFilters
    /\ Called("removeTag", filterId, <<>>, undefined, 1)

removeFilterTagById(filterId) ==
    /\ filterId \in selectedFilters
    /\ selectedFilters' = selectedFilters \ {filterId}
    /\ Called("removeTag", filterId, <<>>, undefined, 1)

\* selectAllInGroup that calls scheduleFilterUpdate for every id it adds
selectAllInGroup_perId(groupKey) ==
    LET group == filterGroups[groupKey]
        added == IF group.type = "flat"
                 THEN {FilterIdOf(groupKey, value) : value \in group.values}
                 ELSE selectAllInHierarchy(groupKey, group.values, <<>>)
    IN  /\ selectedFilters' = selectedFilters \cup added
        /\ Called("selectAllInGroup", groupKey, <<>>, undefined,
                  Cardinality(added \ selectedFilters))

selectAllInGroup(groupKey) ==
    IF groupKey \notin DOMAIN filterGroups
    THEN /\ UNCHANGED selectedFilters
         /\ Called("selectAllInGroup", groupKey, <<>>, undefined, 0)
    ELSE LET group == filterGroups[groupKey]
             added == IF group.type = "flat"
                      THEN {FilterIdOf(groupKey, value) : value \in group.values}
                      ELSE selectAllInHierarchy(groupKey, group.values, <<>>)
         IN  /\ selectedFilters' = selectedFilters \cup added
             /\ Called("selectAllInGroup", groupKey, <<>>, undefined, 1)

\* clearGroup that removes only the ids of the root nodes of a hierarchy
clearGroup_rootOnly(groupKey) ==
    LET group == filterGroups[groupKey]
        filtersToRemove ==
            {filterId \in selectedFilters :
                /\ split(filterId, COLON)[1] = groupKey
                /\ group.type = "hierarchical"
                      => <<split(filterId, COLON)[2]>> \in DOMAIN group.values}
    IN  /\ selectedFilters' = selectedFilters \ filtersToRemove
        /\ Called("clearGroup", groupKey, <<>>, undefined, 1)

clearGroup(groupKey) ==
    LET filtersToRemove ==
            {filterId \in selectedFilters :
                split(filterId, COLON)[1] = groupKey}
    IN  /\ selectedFilters' = selectedFilters \ filtersToRemove
        /\ Called("clearGroup", groupKey, <<>>, undefined, 1)

selectAllChildrenInHierarchy(groupKey, path) ==
    LET found == IF groupKey \in DOMAIN filterGroups
                    /\ filterGroups[groupKey].type = "hierarchical"
                 THEN findHierarchyNode(filterGroups[groupKey].values, path)
                 ELSE <<>>
    IN  IF found = <<>>
        THEN /\ UNCHANGED selectedFilters
             /\ Called("selectAllChildren", groupKey, path, undefined, 0)
        ELSE /\ selectedFilters' = selectedFilters \cup
                    leafNodesRecursive(groupKey, filterGroups[groupKey].values,
                                       found)
             /\ Called("selectAllChildren", groupKey, path, undefined, 1)

clearAllChildrenInHierarchy(groupKey, path) ==
    LET found == IF groupKey \in DOMAIN filterGroups
                    /\ filterGroups[groupKey].type = "hierarchical"
                 THEN findHierarchyNode(filterGroups[groupKey].values, path)
                 ELSE <<>>
    IN  IF found = <<>>
        THEN /\ UNCHANGED selectedFilters
             /\ Called("clearAllChildren", groupKey, path, undefined, 0)
        ELSE /\ selectedFilters' = selectedFilters \
                    leafNodesRecursive(groupKey, filterGroups[groupKey].values,
                                       found)
             /\ Called("clearAllChildren", groupKey, path, undefined, 1)

\* resetScheduler that drops the handle and leaves the timer running
resetScheduler_noCancel(sch) == [pending |-> null, timers |-> sch.timers]

\* the scheduler state resetFilters leaves behind
resetScheduler(sch) ==
    IF sch.pending # null
    THEN [pending |-> null, timers |-> clearTimeout(sch.timers, sch.pending)]
    ELSE sch

\* what resetFilters leaves in selectedFilters
clearedSelection_keepOthers(sel) ==
    {filterId \in sel : split(filterId, COLON)[1] # keyScene}

clearedSelection(sel) == {}

\* the click handler of resetFiltersBtn: resetFilters(), then it dispatches
\* 'filtersChanged' itself
resetFilters ==
    /\ LET sch == resetScheduler([pending |-> pendingFilterUpdate,
                                  timers |-> timers])
       IN  /\ pendingFilterUpdate' = sch.pending
           /\ timers' = sch.timers
    /\ selectedFilters' = clearedSelection(selectedFilters)
    /\ lastOp' = [op |-> "reset", a |-> <<>>, b |-> <<>>]
    /\ ret' = undefined
    /\ selBefore' = selectedFilters
    /\ trig' = 0
    /\ sinceMut' = 0
    /\ sigSinceMut' = 0
    /\ dispatched' = "resetBtn"
    /\ sched' = [by |-> "reset",
                 cleared |-> pendingFilterUpdate \in DOMAIN timers]
    /\ twice' = <<>>
    /\ UNCHANGED loaded

\* a reader (grid renderer, select-all-filtered) calls applyFilters
ApplyFilters(searchQuery) ==
    /\ UNCHANGED selectedFilters
    /\ Called("applyFilters", searchQuery, <<>>,
              arrayOf(applyFilters(datasets, selectedFilters, searchQuery)), 0)

\* the clock advances by TickMs while a timer is still running
Tick ==
    /\ \E id \in DOMAIN timers : timers[id] > 0
    /\ timers' = [id \in DOMAIN timers |-> Max(0, timers[id] - TickMs)]
    /\ sinceMut' = Min(DebounceDelay, sinceMut + TickMs)
    /\ dispatched' = "none"
    /\ UNCHANGED <<loaded, selectedFilters,
                   pendingFilterUpdate, lastOp, ret, selBefore, trig,
                   sigSinceMut, sched, twice>>

\* the callback of the debounce timer id runs
debounceCallback(id) ==
    /\ id \in DOMAIN timers
    /\ timers[id] = 0
    /\ timers' = clearTimeout(timers, id)
    /\ dispatched' = "debounce"
    /\ sigSinceMut' = Min(2, sigSinceMut + 1)
    /\ pendingFilterUpdate' = null
    /\ filterCounts' = IF tooltipElement THEN recount ELSE filterCounts
    /\ UNCHANGED <<loaded, selectedFilters, lastOp, ret,
                   selBefore, trig, sinceMut, sched, twice, tooltipElement>>

TimerIds == 1..3

\* what a step of the filter panel leaves alone
panelFrame == UNCHANGED <<tipVars, histVars, callVars, countVars, finderVars>>
\* what the debounce callback leaves alone besides
callbackFrame == UNCHANGED <<tipVars, histVars, callVars, finderVars>>

Next ==
    \/ \E kv \in Options(filterGroups) :
          toggleFilterSelection(kv[1], kv[2]) /\ panelFrame
    \/ \E filterId \in selectedFilters :
          removeFilterTagById(filterId) /\ panelFrame
    \/ \E groupKey \in GroupKeys : selectAllInGroup(groupKey) /\ panelFrame
    \/ \E groupKey \in GroupKeys : clearGroup(groupKey) /\ panelFrame
    \/ \E kp \in PathArgs(filterGroups) :
          selectAllChildrenInHierarchy(kp[1], kp[2]) /\ panelFrame
    \/ \E kp \in PathArgs(filterGroups) :
          clearAllChildrenInHierarchy(kp[1], kp[2]) /\ panelFrame
    \/ resetFilters /\ panelFrame
    \/ \E searchQuery \in Queries : ApplyFilters(searchQuery) /\ panelFrame
    \/ Tick /\ panelFrame
    \/ \E id \in TimerIds : debounceCallback(id) /\ callbackFrame

Spec == Init /\ [][Next]_vars

\* the event loop keeps running: time passes and a due timer callback runs
FairSpec ==
    /\ Spec
    /\ WF_vars(Tick /\ panelFrame)
    /\ WF_vars(\E id \in TimerIds : debounceCallback(id) /\ callbackFrame)

TypeOK ==
    /\ pendingFilterUpdate \in 0..3
    /\ DOMAIN timers \subseteq TimerIds

(***************************************************************************)
(* The tooltip of the filter options, with the filter panel.               *)
(*   tooltipTimeout  null, or the handle showTooltip got from setTimeout    *)
(*   tipTimers       the tooltip timers that are set: milliseconds left     *)
(*                   and the FilterId their callback displays               *)
(*   tooltipShown    <<>>, or the FilterId of the tooltip on display        *)
(***************************************************************************)
\* ConfigManager.getCSSValue('--tooltip-delay', 300)
TooltipDelay == 300

\* the options that are toggled and hovered
TipOptions == {<<keyScene, lab>>, <<keyObject, vd>>}

\* every timer of tm with t milliseconds less to run
elapse(tm, t) == [id \in DOMAIN tm |-> [tm[id] EXCEPT !.left = Max(0, @ - t)]]

\* mouseenter / first tap on an option (tooltipElement exists)
showTooltip(filterKey, filterValue) ==
    LET cleared == IF tooltipTimeout # null
                   THEN clearTimeout(tipTimers, tooltipTimeout)
                   ELSE tipTimers
        id == freshId(cleared)
    IN  /\ tooltipTimeout' = id
        /\ tipTimers' = [t \in (DOMAIN cleared) \cup {id} |->
                            IF t = id
                            THEN [left |-> TooltipDelay,
                                  filterId |-> FilterIdOf(filterKey, filterValue)]
                            ELSE cleared[t]]
        /\ UNCHANGED tooltipShown
        /\ UNCHANGED selectedFilters
        /\ Called("showTooltip", filterKey, filterValue, undefined, 0)

\* mouseleave / second tap / closing the dropdown
hideTooltip ==
    /\ tipTimers' = IF tooltipTimeout # null
                    THEN clearTimeout(tipTimers, tooltipTimeout)
                    ELSE tipTimers
    /\ tooltipTimeout' = null
    /\ tooltipShown' = <<>>
    /\ UNCHANGED selectedFilters
    /\ Called("hideTooltip", <<>>, <<>>, undefined, 0)

\* the callback of the tooltip timer id runs: the tooltip is displayed
tooltipCallback(id) ==
    /\ id \in DOMAIN tipTimers
    /\ tipTimers[id].left = 0
    /\ tipTimers' = clearTimeout(tipTimers, id)
    /\ tooltipShown' = tipTimers[id].filterId
    /\ dispatched' = "tooltip"
    /\ UNCHANGED <<loaded, selectedFilters, pendingFilterUpdate, timers,
                   lastOp, ret, selBefore, trig, sinceMut, sigSinceMut,
                   sched, twice, tooltipTimeout>>

\* the clock advances by TickMs while a timer of either kind is running
TipTick ==
    /\ \/ \E id \in DOMAIN timers : timers[id] > 0
       \/ \E id \in DOMAIN tipTimers : tipTimers[id].left > 0
    /\ timers' = [id \in DOMAIN timers |-> Max(0, timers[id] - TickMs)]
    /\ tipTimers' = elapse(tipTimers, TickMs)
    /\ sinceMut' = Min(DebounceDelay, sinceMut + TickMs)
    /\ dispatched' = "none"
    /\ UNCHANGED <<loaded, selectedFilters, pendingFilterUpdate, lastOp, ret,
                   selBefore, trig, sigSinceMut, sched, twice,
                   tooltipTimeout, tooltipShown>>

TipInit == Init /\ loaded = "tree"

tipFrame == UNCHANGED <<histVars, callVars, countVars, finderVars>>

TipNext ==
    \/ \E kv \in TipOptions :
          toggleFilterSelection(kv[1], kv[2]) /\ panelFrame
    \/ \E groupKey \in {keyScene, keyObject} : clearGroup(groupKey) /\ panelFrame
    \/ \E kp \in PathArgs(filterGroups) :
          clearAllChildrenInHierarchy(kp[1], kp[2]) /\ panelFrame
    \/ resetFilters /\ panelFrame
    \/ \E id \in TimerIds : debounceCallback(id) /\ callbackFrame
    \/ \E kv \in TipOptions : showTooltip(kv[1], kv[2]) /\ tipFrame
    \/ hideTooltip /\ tipFrame
    \/ \E id \in TimerIds : tooltipCallback(id) /\ tipFrame
    \/ TipTick /\ tipFrame

\* the event loop keeps running: time passes and a due timer callback runs
TipSpec ==
    /\ TipInit
    /\ [][TipNext]_vars
    /\ WF_vars(TipTick /\ tipFrame)
    /\ WF_vars(\E id \in TimerIds : debounceCallback(id) /\ callbackFrame)
    /\ WF_vars(\E id \in TimerIds : tooltipCallback(id) /\ tipFrame)

(***************************************************************************)
(* The count cache with the filter panel, from before the dropdown is      *)
(* first opened.                                                           *)
(*   tooltipElement  whether initializeTooltips has created the element    *)
(*   filterCounts    the Map FilterId -> count (<<>> when empty)           *)
(***************************************************************************)
\* the click on filterTriggerBtn opens the dropdown: initializeTooltips()
initializeTooltips ==
    /\ tooltipElement' = TRUE
    /\ filterCounts' = recount
    /\ UNCHANGED selectedFilters
    /\ Called("initializeTooltips", <<>>, <<>>, undefined, 0)

\* the options, group keys and paths the user works with
CountOptions == {<<keyAction, pick>>, <<keyObject, vb>>}
CountKeys == {keyScene, keyObject}
CountPaths == {va, absentPath}

CountInit ==
    /\ panelInit /\ loaded = "tree"
    /\ tooltipTimeout = null /\ tipTimers = <<>> /\ tooltipShown = <<>>
    /\ userOn = {} /\ lastOn = {}
    /\ tooltipElement = FALSE
    /\ filterCounts = <<>>
    /\ finderInit
    /\ arg = <<>> /\ res = undefined

countFrame == UNCHANGED <<tipVars, histVars, callVars, finderVars>>

CountNext ==
    \/ initializeTooltips /\ countFrame
    \/ \E kv \in CountOptions :
          toggleFilterSelection(kv[1], kv[2]) /\ panelFrame
    \/ \E groupKey \in CountKeys : selectAllInGroup(groupKey) /\ panelFrame
    \/ \E groupKey \in CountKeys : clearGroup(groupKey) /\ panelFrame
    \/ \E path \in CountPaths :
          selectAllChildrenInHierarchy(keyObject, path) /\ panelFrame
    \/ \E path \in CountPaths :
          clearAllChildrenInHierarchy(keyObject, path) /\ panelFrame
    \/ resetFilters /\ panelFrame
    \/ Tick /\ panelFrame
    \/ \E id \in TimerIds : debounceCallback(id) /\ callbackFrame

CountSpec == CountInit /\ [][CountNext]_vars

(***************************************************************************)
(* The filter finder with the filter panel.                                *)
(*   filterFinderMatches       the matches: option element and label text  *)
(*   filterFinderCurrentIndex  -1, or the 0-based index of the current one *)
(*   finderInput               the trimmed value of the find bar's input   *)
(*   collapsed                 the containers with the class 'collapsed'   *)
(*   searchHidden              the wrappers with 'filter-search-hidden'    *)
(* The finder fields are gathered in a record for the methods, which call  *)
(* one another.  The class 'highlight-match' is on exactly the elements of *)
(* the matches: clearFilterSearch removes it before every search.          *)
(***************************************************************************)
OptionsScene == allOptions(CollScene)
OptionsTree == allOptions(CollTree)
OptionsFind == allOptions(CollFind)
\* the rendered options of the loaded collection, in document order
renderedOptions ==
    IF loaded = "scene" THEN OptionsScene
    ELSE IF loaded = "find" THEN OptionsFind
    ELSE OptionsTree
renderedWrappers == Range(renderedOptions) \cup {<<key>> : key \in GroupKeys}

finder == [matches |-> filterFinderMatches,
           index |-> filterFinderCurrentIndex,
           collapsed |-> collapsed,
           hidden |-> searchHidden]

\* the direction argument of navigateFilterMatch
next == <<"next">>
prev == <<"prev">>

\* the JavaScript remainder a % n for n > 0: it has the sign of a
jsMod(a, n) == IF a >= 0 THEN a % n ELSE 0 - ((0 - a) % n)

\* wrapper w is x or holds x
holds(w, x) == Len(w) <= Len(x) /\ SubSeq(x, 1, Len(w)) = w

\* clearFilterSearch that leaves the hidden wrappers hidden
clearFilterSearch_keepHidden(f) == [f EXCEPT !.matches = <<>>, !.index = -1]

clearFilterSearch(f) ==
    [f EXCEPT !.matches = <<>>, !.index = -1, !.hidden = {}]

\* highlightCurrentMatch that marks the match and expands nothing
highlightCurrentMatch_noExpand(f) == f

highlightCurrentMatch(f) ==
    IF f.index < 0 \/ f.index >= Len(f.matches) THEN f
    ELSE [f EXCEPT !.collapsed = @ \ ancestorsOf(f.matches[f.index + 1].element)]

\* the first pass of searchFilterOptions over the options
findMatches(options, query) ==
    LET matches(w) == includes(toLowerCase(labelOf(w)), toLowerCase(query))
        hits == SelectSeq(options, matches)
    IN  [i \in 1..Len(hits) |-> [element |-> hits[i], text |-> labelOf(hits[i])]]

\* the second pass that shows only the wrappers of the matches themselves
secondPass_selfOnly(f, wrappers) ==
    LET ms == f.matches
        shown == {w \in wrappers : \E i \in 1..Len(ms) : w = ms[i].element}
    IN  [f EXCEPT !.hidden = (@ \ shown) \cup (wrappers \ shown),
                  !.collapsed = @ \ UNION {ancestorsOf(w) : w \in shown}]

\* the second pass of searchFilterOptions over the wrappers: a wrapper
\* that holds a match is shown and the containers above it are expanded,
\* any other wrapper is hidden
secondPass(f, wrappers) ==
    LET ms == f.matches
        shown == {w \in wrappers : \E i \in 1..Len(ms) : holds(w, ms[i].element)}
    IN  [f EXCEPT !.hidden = (@ \ shown) \cup (wrappers \ shown),
                  !.collapsed = @ \ UNION {ancestorsOf(w) : w \in shown}]

\* searchFilterOptions that makes the last match the current one
searchFilterOptions_last(f, options, wrappers, query) ==
    LET c == clearFilterSearch(f)
        ms == findMatches(options, query)
        second == secondPass([c EXCEPT !.matches = ms], wrappers)
    IN  IF query = <<>> THEN c
        ELSE IF Len(ms) > 0
             THEN highlightCurrentMatch([second EXCEPT !.index = Len(ms) - 1])
             ELSE second

searchFilterOptions(f, options, wrappers, query) ==
    LET c == clearFilterSearch(f)
        ms == findMatches(options, query)
        second == secondPass([c EXCEPT !.matches = ms], wrappers)
    IN  IF query = <<>> THEN c
        ELSE IF Len(ms) > 0
             THEN highlightCurrentMatch([second EXCEPT !.index = 0])
             ELSE second

\* navigateFilterMatch that stops at the first and at the last match
navigateFilterMatch_noWrap(f, direction) ==
    IF Len(f.matches) = 0 THEN f
    ELSE highlightCurrentMatch(
             [f EXCEPT !.index = IF direction = next
                                 THEN Min(@ + 1, Len(f.matches) - 1)
                                 ELSE Max(@ - 1, 0)])

\* navigateFilterMatch that steps without the remainder
navigateFilterMatch_noMod(f, direction) ==
    IF Len(f.matches) = 0 THEN f
    ELSE highlightCurrentMatch(
             [f EXCEPT !.index = IF direction = next THEN @ + 1 ELSE @ - 1])

navigateFilterMatch(f, direction) ==
    IF Len(f.matches) = 0 THEN f
    ELSE highlightCurrentMatch(
             [f EXCEPT !.index =
                 IF direction = next
                 THEN jsMod(@ + 1, Len(f.matches))
                 ELSE jsMod(@ - 1 + Len(f.matches), Len(f.matches))])

\* the finder fields after a method left them as f
setFinder(f) ==
    /\ filterFinderMatches' = f.matches
    /\ filterFinderCurrentIndex' = f.index
    /\ collapsed' = f.collapsed
    /\ searchHidden' = f.hidden

Directions == {next, prev}

\* the input event with a search that also schedules a filter update
FinderInput_schedules(query) ==
    /\ finderInput' = query
    /\ setFinder(searchFilterOptions(finder, renderedOptions,
                                     renderedWrappers, query))
    /\ UNCHANGED selectedFilters
    /\ Called("searchFilterOptions", query, <<>>, undefined, 1)

\* the input event of the find bar: searchFilterOptions(value.trim())
FinderInput(query) ==
    /\ finderInput' = query
    /\ setFinder(searchFilterOptions(finder, renderedOptions,
                                     renderedWrappers, query))
    /\ UNCHANGED selectedFilters
    /\ Called("searchFilterOptions", query, <<>>, undefined, 0)

\* a click on the previous or the next button
NavigateButton(direction) ==
    /\ setFinder(navigateFilterMatch(finder, direction))
    /\ UNCHANGED <<finderInput, selectedFilters>>
    /\ Called("navigateFilterMatch", direction, <<>>, undefined, 0)

\* Escape in the find bar, or closing the dropdown
EscapeKey ==
    /\ finderInput' = <<>>
    /\ setFinder(clearFilterSearch(finder))
    /\ UNCHANGED selectedFilters
    /\ Called("clearFilterSearch", <<>>, <<>>, undefined, 0)

\* whether Enter finds a current match with data-filter and data-value
enterSelects ==
    /\ finderInput # <<>>
    /\ filterFinderCurrentIndex >= 0
    /\ filterFinderCurrentIndex < Len(filterFinderMatches)

\* Enter that selects the first match, whichever is current
EnterKey_first ==
    /\ IF enterSelects
       THEN LET option == filterFinderMatches[1].element
            IN  toggleFilterSelection(datasetFilter(option), datasetValue(option))
       ELSE /\ UNCHANGED selectedFilters
            /\ Called("enterKey", <<>>, <<>>, undefined, 0)
    /\ UNCHANGED finderVars

\* Enter in the find bar
EnterKey ==
    /\ IF enterSelects
       THEN LET option ==
                    filterFinderMatches[filterFinderCurrentIndex + 1].element
            IN  toggleFilterSelection(datasetFilter(option), datasetValue(option))
       ELSE /\ UNCHANGED selectedFilters
            /\ Called("enterKey", <<>>, <<>>, undefined, 0)
    /\ UNCHANGED finderVars

\* a click on a group title or on a hierarchy node with children
toggleCollapsed(w) ==
    /\ collapsed' = IF w \in collapsed THEN collapsed \ {w}
                    ELSE collapsed \cup {w}
    /\ UNCHANGED <<filterFinderMatches, filterFinderCurrentIndex,
                   finderInput, searchHidden, selectedFilters>>
    /\ Called("toggleCollapsed", JoinPath(w), <<>>, undefined, 0)

\* the containers the user opens and closes: the object group and its node b
FindContainers == {<<keyObject>>, <<keyObject, vb>>}

FindInit ==
    /\ loaded = "find"
    /\ panelStart
    /\ auxInit
    /\ arg = <<>>
    /\ res = undefined

findFrame == UNCHANGED <<tipVars, histVars, callVars, countVars>>

FindNext ==
    \/ \E query \in Queries : FinderInput(query) /\ findFrame
    \/ \E direction \in Directions : NavigateButton(direction) /\ findFrame
    \/ EscapeKey /\ findFrame
    \/ EnterKey /\ findFrame
    \/ \E w \in FindContainers : toggleCollapsed(w) /\ findFrame
    \/ Tick /\ panelFrame
    \/ \E id \in TimerIds : debounceCallback(id) /\ callbackFrame

FindSpec == FindInit /\ [][FindNext]_vars

(***************************************************************************)
(* The filter panel with a record of what the user did to each FilterId.   *)
(*   userOn   the FilterIds the user last toggled on and has not since     *)
(*            toggled off, cleared with their group, or reset              *)
(*   lastOn   the FilterIds whose last change by any operation of the      *)
(*            panel was an addition                                        *)
(***************************************************************************)
\* the hierarchy of the object group
objectTree == filterGroups[keyObject].values
LeafFlagged == {p \in DOMAIN objectTree : objectTree[p]}
\* the nodes strictly below node p
Below(p) ==
    {q \in DOMAIN objectTree : Len(q) > Len(p) /\ SubSeq(q, 1, Len(p)) = p}
\* the nodes whose '>'-joined path is path
NodesAt(path) == {p \in DOMAIN objectTree : JoinPath(p) = path}
ObjectId(p) == FilterIdOf(keyObject, lastOf(p))
\* the FilterIds of the options of group key
OptionIds(key) ==
    {FilterIdOf(o[1], o[2]) : o \in {x \in Options(filterGroups) : x[1] = key}}

\* the FilterIds a bulk selection of group key covers
CoveredByGroup(key) ==
    IF key = keyObject THEN {ObjectId(p) : p \in LeafFlagged}
    ELSE OptionIds(key)

\* the FilterIds a bulk operation on the node at path covers
CoveredUnder(key, path) ==
    IF key = keyObject
    THEN UNION {{ObjectId(q) : q \in Below(p) \cap LeafFlagged} :
                  p \in NodesAt(path)}
    ELSE {}

\* a click on an option
userToggle(filterId) ==
    IF filterId \in selectedFilters
    THEN /\ userOn' = userOn \ {filterId}
         /\ lastOn' = lastOn \ {filterId}
    ELSE /\ userOn' = userOn \cup {filterId}
         /\ lastOn' = lastOn \cup {filterId}

\* the options, group keys and paths the user works with
SelOptions ==
    {<<keyScene, lab>>, <<keyObject, va>>, <<keyObject, vb>>, <<keyObject, vd>>}
SelKeys == {keyScene, keyObject}
SelPaths == {va, JoinPath(<<va, vc>>), absentPath}

SelInit == Init /\ loaded = "tree"

selFrame == UNCHANGED <<tipVars, callVars, countVars, finderVars>>

SelNext ==
    \/ \E kv \in SelOptions :
          /\ toggleFilterSelection(kv[1], kv[2])
          /\ userToggle(FilterIdOf(kv[1], kv[2]))
          /\ selFrame
    \/ \E filterId \in selectedFilters :
          /\ removeFilterTagById(filterId)
          /\ lastOn' = lastOn \ {filterId}
          /\ UNCHANGED userOn
          /\ selFrame
    \/ \E groupKey \in SelKeys :
          /\ selectAllInGroup(groupKey)
          /\ lastOn' = lastOn \cup CoveredByGroup(groupKey)
          /\ UNCHANGED userOn
          /\ selFrame
    \/ \E groupKey \in SelKeys :
          /\ clearGroup(groupKey)
          /\ userOn' = userOn \ OptionIds(groupKey)
          /\ lastOn' = lastOn \ OptionIds(groupKey)
          /\ selFrame
    \/ \E path \in SelPaths :
          /\ selectAllChildrenInHierarchy(keyObject, path)
          /\ lastOn' = lastOn \cup CoveredUnder(keyObject, path)
          /\ UNCHANGED userOn
          /\ selFrame
    \/ \E path \in SelPaths :
          /\ clearAllChildrenInHierarchy(keyObject, path)
          /\ lastOn' = lastOn \ CoveredUnder(keyObject, path)
          /\ UNCHANGED userOn
          /\ selFrame
    \/ /\ resetFilters
       /\ userOn' = {}
       /\ lastOn' = {}
       /\ selFrame

SelSpec == SelInit /\ [][SelNext]_vars

(***************************************************************************)
(* buildFilterGroups and updateFilterCounts on a manager constructed with  *)
(* a collection drawn from a pool of records, in any order.                *)
(*   arg   the collection handed to the constructor                        *)
(*   res   undefined, or what the last call produced: the filter groups,   *)
(*         the count cache, or a TypeError                                 *)
(***************************************************************************)
\* most records of a collection
MaxRecords == 3

\* a record with no field but its path and name
bareRecord == [path |-> <<"r0">>, name |-> <<"b">>]
\* a record with an object entry that has no hierarchy
noHierarchyRecord ==
    [path |-> <<"r1">>, name |-> <<"a">>,
     scenes |-> <<>>,
     objects |-> << [object_name |-> <<"cup">>] >>]

\* a record whose scene value contains the separator of a FilterId
labColonX == <<"lab", COLON, "x">>
colonRecord ==
    [path |-> <<"r2">>, name |-> <<"c">>, scenes |-> <<labColonX>>]

RecordPool ==
    Range(CollScene) \cup Range(CollTree)
    \cup {bareRecord, noHierarchyRecord, colonRecord}

\* the sequences of n distinct elements of S
Arrangements(S, n) ==
    {q \in [1..n -> S] : \A i, j \in 1..n : i # j => q[i] # q[j]}

BuildInputs == UNION {Arrangements(RecordPool, n) : n \in 0..MaxRecords}

\* this.filterCounts.get(filterId) || 0 of the tooltip callback
servedCount_stale(counts, filterId) ==
    IF filterId \in DOMAIN counts THEN counts[filterId]
    ELSE IF DOMAIN counts = {} THEN 0
    ELSE counts[CHOOSE f \in DOMAIN counts : TRUE]

servedCount(counts, filterId) ==
    IF filterId \in DOMAIN counts /\ counts[filterId] # 0
    THEN counts[filterId]
    ELSE 0

\* buildFilterGroups() on the manager constructed with arg
Build ==
    /\ res = undefined
    /\ res' = [kind |-> "groups", v |-> buildFilterGroups(arg)]
    /\ UNCHANGED arg

\* initializeTooltips() after it: updateFilterCounts()
Count ==
    /\ res.kind = "groups"
    /\ res' = updateFilterCounts(arg, res.v)
    /\ UNCHANGED arg

BuildInit ==
    /\ panelInit /\ loaded = "scene"
    /\ auxInit
    /\ arg \in BuildInputs
    /\ res = undefined

buildFrame ==
    UNCHANGED <<loaded, selectedFilters, pendingFilterUpdate, timers, lastOp,
                ret, selBefore, trig, sinceMut, sigSinceMut, dispatched,
                sched, twice, tipVars, histVars, countVars, finderVars>>

BuildNext ==
    \/ Build /\ buildFrame
    \/ Count /\ buildFrame

BuildSpec == BuildInit /\ [][BuildNext]_vars

(***************************************************************************)
(* searchFilterOptions on a manager constructed with the records of a pool *)
(* in any order, right after renderFilterGroups.                           *)
(*   arg   the collection handed to the constructor                        *)
(*   res   undefined, the filter groups, or a query and the matches that   *)
(*         searchFilterOptions built for it                                *)
(***************************************************************************)
\* records whose object paths share segments: b > Ba, a, b > a and a > b
FindPool ==
    Range(CollFind)
    \cup {[path |-> <<"f3">>, name |-> <<"c">>,
           objects |-> << [hierarchy |-> <<vb, va>>] >>],
          [path |-> <<"f4">>, name |-> <<"d">>,
           scenes |-> << <<"B">> >>,
           objects |-> << [hierarchy |-> <<va, vb>>] >>]}

FindInputs == UNION {Arrangements(FindPool, n) : n \in 0..MaxRecords}

\* the finder fields right after renderFilterGroups on the collection dss
renderedFinder(dss) ==
    [matches |-> <<>>, index |-> -1,
     collapsed |-> Containers(dss) \ {<<GroupOrder[1]>>},
     hidden |-> {}]

\* searchFilterOptions(query) on the rendered groups of arg
Search(query) ==
    /\ res.kind = "groups"
    /\ res' = [kind |-> "matches", q |-> query,
               v |-> searchFilterOptions(renderedFinder(arg), allOptions(arg),
                                         allWrappers(arg), query).matches]
    /\ UNCHANGED arg

SearchInit ==
    /\ panelInit /\ loaded = "scene"
    /\ auxInit
    /\ arg \in FindInputs
    /\ res = undefined

SearchNext ==
    \/ Build /\ buildFrame
    \/ Count /\ buildFrame
    \/ \E query \in Queries : Search(query) /\ buildFrame

SearchSpec == SearchInit /\ [][SearchNext]_vars

(***************************************************************************)
(* What the specification says of a record, stated on the record's fields. *)
(***************************************************************************)
\* the values of group key whose FilterId is selected
SelectedValues(key) ==
    {kv[2] : kv \in {o \in Options(filterGroups) :
                       o[1] = key /\ FilterIdOf(o[1], o[2]) \in selectedFilters}}

\* every segment of every hierarchy path of the record
Segments(ds) ==
    IF Has(ds, "objects")
    THEN UNION {Range(obj.hierarchy) :
                  obj \in {o \in Range(ds.objects) : Has(o, "hierarchy")}}
    ELSE {}

\* the values the record carries for group key
RecordValues(ds, key) ==
    CASE key = keyScene -> IF Has(ds, "scenes") THEN Range(ds.scenes) ELSE {}
      [] key = keyRobot -> IF Has(ds, "robot") THEN Range(ds.robot.items) ELSE {}
      [] key = keyEnd -> IF Has(ds, "endEffector") THEN {ds.endEffector} ELSE {}
      [] key = keyAction -> IF Has(ds, "actions") THEN Range(ds.actions) ELSE {}
      [] key = keyObject -> Segments(ds)

\* AND across the groups that have a selection, OR within a group
FacetOK(ds) ==
    \A key \in GroupKeys :
        SelectedValues(key) # {}
            => RecordValues(ds, key) \cap SelectedValues(key) # {}

SameLetter(c, d) ==
    \/ c = d
    \/ {c, d} \in {{"a", "A"}, {"b", "B"}, {"k", "K"}}

\* query occurs in name as a substring, letter case ignored
ContainsIgnoringCase(name, query) ==
    \E i \in 0..(Len(name) - Len(query)) :
        \A j \in 1..Len(query) : SameLetter(name[i + j], query[j])

\* r is d with some elements left out
IsSubsequence(r, d) ==
    \E f \in [1..Len(r) -> 1..Len(d)] :
        /\ \A i \in 1..Len(r) : r[i] = d[f[i]]
        /\ \A i, j \in 1..Len(r) : i < j => f[i] < f[j]

AppliedFilters == lastOp.op = "applyFilters"
BulkOps == {"selectAllInGroup", "clearGroup", "selectAllChildren",
            "clearAllChildren"}

(***************************************************************************)
(* Claims.                                                                 *)
(***************************************************************************)
\* C1: applyFilters returns only records that, for every facet key with a
\* selected FilterId, carry one of that key's selected values (AND across
\* groups, OR within a group), and with the empty query it returns exactly
\* those records; a key with no selection imposes no constraint.
C1_FacetConjunction ==
    AppliedFilters =>
        /\ Range(ret.v) \subseteq {ds \in Range(datasets) : FacetOK(ds)}
        /\ lastOp.a = <<>>
              => Range(ret.v) = {ds \in Range(datasets) : FacetOK(ds)}

\* scene:kitchen and robot:arm1 selected: only A is returned
C1_Witness ==
    /\ loaded = "scene"
    /\ AppliedFilters /\ lastOp.a = <<>>
    /\ selectedFilters = {FilterIdOf(keyScene, kitchen),
                          FilterIdOf(keyRobot, arm1)}
    /\ ret.v = <<CollScene[1]>>

\* C2: for the hierarchical 'object' facet a returned record has some
\* segment, at any depth, of some hierarchy path equal to a selected value;
\* and when only object FilterIds are selected and the query is empty, the
\* records returned are exactly the records that have such a segment.
C2_HierarchyAnyDepth ==
    (AppliedFilters /\ SelectedValues(keyObject) # {}) =>
        /\ \A ds \in Range(ret.v) :
              Segments(ds) \cap SelectedValues(keyObject) # {}
        /\ (lastOp.a = <<>>
            /\ \A key \in GroupKeys \ {keyObject} : SelectedValues(key) = {})
              => Range(ret.v) =
                    {ds \in Range(datasets) :
                        Segments(ds) \cap SelectedValues(keyObject) # {}}

\* object:tools selected: the record with path [tools, drill] is returned
C2_Witness ==
    /\ loaded = "scene"
    /\ AppliedFilters /\ lastOp.a = <<>>
    /\ selectedFilters = {FilterIdOf(keyObject, tools)}
    /\ ret.v = <<CollScene[1], CollScene[2]>>

\* C3: the sequence applyFilters returns is a subsequence of the record
\* collection: no record twice, none from outside, original relative order.
C3_Subsequence ==
    AppliedFilters => IsSubsequence(ret.v, datasets)

\* the first and the third record returned, in that order
C3_Witness ==
    /\ AppliedFilters
    /\ selectedFilters # {}
    /\ ret.v = <<datasets[1], datasets[3]>>

\* C4: the records applyFilters returns are exactly those that satisfy the
\* facet condition and, when the query is not empty, whose name contains
\* the query as a substring, letter case ignored.
C4_TextQuery ==
    AppliedFilters =>
        Range(ret.v) =
            {ds \in Range(datasets) :
                /\ FacetOK(ds)
                /\ lastOp.a = <<>> \/ ContainsIgnoringCase(ds.name, lastOp.a)}

\* query "aB" with robot:arm1 selected: only the record named "ab"
C4_Witness ==
    /\ loaded = "scene"
    /\ AppliedFilters /\ lastOp.a = <<"a", "B">>
    /\ selectedFilters = {FilterIdOf(keyRobot, arm1)}
    /\ ret.v = <<CollScene[3]>>

\* C5: after resetFilters SelectionState is empty, and applyFilters('')
\* called after it, with no selection mutation in between, returns the
\* full record sequence in original order.
C5_ResetRoundTrip ==
    /\ lastOp.op = "reset" => selectedFilters = {}
    /\ (sched.by = "reset" /\ AppliedFilters /\ lastOp.a = <<>>)
          => ret.v = datasets

\* applyFilters('') after a reset that found a debounce timer pending
C5_Witness ==
    /\ sched.by = "reset" /\ sched.cleared
    /\ AppliedFilters /\ lastOp.a = <<>>
    /\ Len(ret.v) = 3

\* C6 (as claimed): toggle flips the membership of its FilterId, leaves the
\* other FilterIds alone and returns whether the FilterId is now selected.
C6_ToggleReturnsSelected ==
    lastOp.op = "toggle" =>
        LET filterId == FilterIdOf(lastOp.a, lastOp.b)
        IN  /\ filterId \in selectedFilters <=> filterId \notin selBefore
            /\ selectedFilters \ {filterId} = selBefore \ {filterId}
            /\ ret.kind = "boolean"
            /\ ret.v = (filterId \in selectedFilters)

\* C6 (amended): toggle flips the membership of its FilterId, leaves the
\* other FilterIds alone and returns no value.
C6_ToggleFlips ==
    lastOp.op = "toggle" =>
        LET filterId == FilterIdOf(lastOp.a, lastOp.b)
        IN  /\ filterId \in selectedFilters <=> filterId \notin selBefore
            /\ selectedFilters \ {filterId} = selBefore \ {filterId}
            /\ ret = undefined

\* a FilterId toggled on while another one is selected
C6_Witness ==
    /\ lastOp.op = "toggle"
    /\ FilterIdOf(lastOp.a, lastOp.b) \in selectedFilters
    /\ selBefore # {}

\* C7: toggling the same FilterId twice in a row returns SelectionState to
\* its membership before the first toggle, and each of the two toggles
\* calls the scheduler once.
C7_ToggleTwice ==
    twice # <<>> =>
        /\ selectedFilters = twice[1].sel
        /\ twice[1].trig + trig = 2
        /\ twice[1].trig = 1

\* the second toggle came while the timer of the first was pending
C7_Witness ==
    /\ twice # <<>>
    /\ selectedFilters # {}
    /\ sched.cleared

\* C8: mutations that each arrive before the quiet period of the previous
\* one has elapsed produce one 'filtersChanged': the callback runs only
\* when DebounceDelay has passed since the last mutation, it leaves no
\* timer behind, at most one signal follows a mutation, and the signal is
\* eventually dispatched unless a further mutation or reset arrives.
C8_DebounceCoalescing ==
    /\ [](/\ sigSinceMut <= 1
          /\ dispatched = "debounce"
                => /\ sinceMut >= DebounceDelay
                   /\ timers = <<>>
                   /\ sigSinceMut = 1
          /\ (sched.by = "schedule" /\ pendingFilterUpdate = null)
                => sigSinceMut = 1)
    /\ []<>(pendingFilterUpdate = null \/ sinceMut = 0)

\* one signal after a mutation that superseded a pending timer
C8_Witness ==
    /\ dispatched = "debounce"
    /\ sched.by = "schedule" /\ sched.cleared
    /\ sigSinceMut = 1

\* C9: a bulk operation that changes membership calls the scheduler once,
\* however many FilterIds it touches, and one 'filtersChanged' follows
\* unless a further mutation or reset arrives.
C9_BulkOnce ==
    LET bulkChanged == lastOp.op \in BulkOps /\ selectedFilters # selBefore
    IN  /\ [](bulkChanged =>
                /\ trig = 1
                /\ sigSinceMut <= 1
                /\ pendingFilterUpdate = null => sigSinceMut = 1)
        /\ []<>(~(bulkChanged /\ pendingFilterUpdate # null) \/ sinceMut = 0)

\* a bulk operation touched two FilterIds and one signal was dispatched
C9_Witness ==
    /\ lastOp.op \in BulkOps
    /\ Cardinality((selectedFilters \ selBefore)
                   \cup (selBefore \ selectedFilters)) >= 2
    /\ trig = 1
    /\ dispatched = "debounce"
    /\ sigSinceMut = 1

\* C10: resetFilters discards the pending debounce timer, and until a later
\* mutation schedules one no timer is pending and the callback does not
\* run.
C10_ResetCancels ==
    sched.by = "reset" =>
        /\ timers = <<>>
        /\ pendingFilterUpdate = null
        /\ dispatched # "debounce"
        /\ sigSinceMut = 0

\* a reset that found a timer pending
C10_Witness ==
    /\ lastOp.op = "reset"
    /\ sched.by = "reset" /\ sched.cleared
    /\ selBefore # {}

ClearOps == {"reset", "clearGroup", "clearAllChildren"}

\* C11 (as claimed): once resetFilters, clearGroup or a
\* clearAllChildrenInHierarchy that found its node has returned, no timer
\* set before the call is left: no tooltip timer is pending and no tooltip
\* callback runs, and after resetFilters no debounce timer is pending and no
\* debounce callback runs (the other two restart the debounce themselves).
C11_ClearCancelsTimers ==
    (lastOp.op \in ClearOps /\ (lastOp.op = "clearAllChildren" => trig = 1)) =>
        /\ tipTimers = <<>>
        /\ dispatched # "tooltip"
        /\ lastOp.op = "reset" => (timers = <<>> /\ dispatched # "debounce")

\* the tooltip timer set before a reset ran after it
C11_Witness ==
    /\ lastOp.op = "reset"
    /\ dispatched = "tooltip"
    /\ tooltipShown = FilterIdOf(keyObject, vd)
    /\ selBefore # {}

\* C12: after selectAllInGroup on a flat group every value of the group is
\* selected; on the hierarchical group the FilterId of every leaf-flagged
\* node is selected and none is added for a node that is not leaf-flagged;
\* nothing is removed and the FilterIds of the other groups keep their
\* membership.
C12_SelectAllInGroup ==
    lastOp.op = "selectAllInGroup" =>
        /\ filterGroups[lastOp.a].type = "flat"
              => \A v \in filterGroups[lastOp.a].values :
                    FilterIdOf(lastOp.a, v) \in selectedFilters
        /\ lastOp.a = keyObject
              => /\ \A p \in LeafFlagged : ObjectId(p) \in selectedFilters
                 /\ \A p \in (DOMAIN objectTree) \ LeafFlagged :
                       ObjectId(p) \in selectedFilters
                          => ObjectId(p) \in selBefore
        /\ selBefore \subseteq selectedFilters
        /\ selectedFilters \ OptionIds(lastOp.a) = selBefore \ OptionIds(lastOp.a)

\* select-all on the object group of a > {b, c > {d}} with scene:lab
\* selected: b and d are added, a and c are not
C12_Witness ==
    /\ loaded = "tree"
    /\ lastOp.op = "selectAllInGroup" /\ lastOp.a = keyObject
    /\ selBefore = {FilterIdOf(keyScene, lab)}
    /\ selectedFilters = {FilterIdOf(keyScene, lab),
                          FilterIdOf(keyObject, vb), FilterIdOf(keyObject, vd)}

\* C13: a selectAllChildrenInHierarchy that found the node at path adds
\* exactly the FilterIds of the leaf-flagged nodes below that node, and no
\* FilterId for the node itself or for a node that is not leaf-flagged.
C13_SelectAllUnder ==
    (lastOp.op = "selectAllChildren" /\ trig = 1) =>
        \E p \in NodesAt(lastOp.b) :
            /\ selectedFilters =
                  selBefore \cup {ObjectId(q) : q \in Below(p) \cap LeafFlagged}
            /\ \A q \in ((DOMAIN objectTree) \ LeafFlagged) \cup {p} :
                  ObjectId(q) \in selectedFilters => ObjectId(q) \in selBefore

\* on the tree a > {b(leaf), c > {d(leaf)}}, selectAllUnder(object, 'a')
\* from the empty selection selects b and d only
C13_Witness ==
    /\ loaded = "tree"
    /\ lastOp = [op |-> "selectAllChildren", a |-> keyObject, b |-> va]
    /\ selBefore = {}
    /\ selectedFilters = {FilterIdOf(keyObject, vb), FilterIdOf(keyObject, vd)}

\* C14: selectAllChildrenInHierarchy and clearAllChildrenInHierarchy called
\* with a path that has a segment absent from the tree, or on a group that
\* is flat or unknown, return normally, leave SelectionState as it was and
\* do not call the scheduler.
C14_AbsentPathNoOp ==
    (/\ lastOp.op \in {"selectAllChildren", "clearAllChildren"}
     /\ lastOp.a # keyObject \/ NodesAt(lastOp.b) = {}) =>
        /\ ret = undefined
        /\ selectedFilters = selBefore
        /\ trig = 0

\* clearUnder on a path whose first segment is in the tree and whose second
\* is not, with a selection and a debounce timer pending
C14_Witness ==
    /\ loaded = "tree"
    /\ lastOp = [op |-> "clearAllChildren", a |-> keyObject, b |-> absentPath]
    /\ FilterIdOf(keyObject, vb) \in selectedFilters
    /\ timers # <<>>

\* C15: clearGroup(key) removes every selected FilterId of group key, at
\* whatever depth of the hierarchy its value lies, and leaves the rest of
\* SelectionState as it was.
C15_ClearGroup ==
    lastOp.op = "clearGroup" =>
        selectedFilters = selBefore \ OptionIds(lastOp.a)

\* the object group cleared while a (depth 1), d (depth 3) and scene:lab
\* were selected: scene:lab stays
C15_Witness ==
    /\ loaded = "tree"
    /\ lastOp.op = "clearGroup" /\ lastOp.a = keyObject
    /\ selBefore = {FilterIdOf(keyObject, va), FilterIdOf(keyObject, vd),
                    FilterIdOf(keyScene, lab)}
    /\ selectedFilters = {FilterIdOf(keyScene, lab)}

\* C16 (as claimed): a FilterId is in SelectionState exactly when the user
\* last toggled it on and has not since toggled it off, cleared its group
\* or reset.
C16_OnlyToggledOn == selectedFilters = userOn

\* C16 (amended): a FilterId is in SelectionState exactly when the last
\* operation that changed its membership added it: a toggle to on, a
\* selectAllInGroup of its group or a selectAllChildrenInHierarchy above it;
\* and not a toggle to off, the removal of its tag, a clearGroup of its
\* group, a clearAllChildrenInHierarchy above it or a reset.
C16_LastChangeAdded == selectedFilters = lastOn

\* selected by a bulk operation without a toggle, and toggled on but taken
\* out again by clearAllChildrenInHierarchy
C16_Witness ==
    /\ FilterIdOf(keyScene, lab) \in selectedFilters \ userOn
    /\ FilterIdOf(keyObject, vd) \in userOn \ selectedFilters
    /\ lastOp.op = "clearAllChildren"

\* the hierarchy paths of the records of dss
PathsOf(dss) ==
    UNION {{obj.hierarchy :
              obj \in {o \in Range(dss[i].objects) : Has(o, "hierarchy")}} :
             i \in {j \in 1..Len(dss) : Has(dss[j], "objects")}}
\* the non-empty prefixes of the paths of P
PrefixesOf(P) == UNION {{SubSeq(p, 1, k) : k \in 1..Len(p)} : p \in P}
\* the orderings of the collection dss
Orderings(dss) ==
    {[i \in 1..Len(dss) |-> dss[f[i]]] :
        f \in Arrangements(1..Len(dss), Len(dss))}
FlatKeys == {keyScene, keyRobot, keyEnd, keyAction}
\* the values the records of dss carry for the flat group key
ValuesOf(dss, key) == UNION {RecordValues(dss[i], key) : i \in 1..Len(dss)}
Built == res.kind = "groups"
builtTree == res.v[keyObject].values

\* C17 (as claimed): after buildFilterGroups, whatever the order of the
\* records, a node of the tree has isLeaf = true exactly when the hierarchy
\* path of some record ends at that node.
C17_LeafIffPathEnds ==
    Built => \A p \in DOMAIN builtTree : builtTree[p] <=> p \in PathsOf(arg)

\* the record with path [tools, drill] came before the one with path
\* [tools]: the node tools is not flagged
C17_Witness ==
    /\ arg = <<CollScene[1], CollScene[2]>>
    /\ Built
    /\ builtTree[<<tools>>] = FALSE

\* C18: the nodes of the tree buildFilterGroups produces are the non-empty
\* prefixes of the records' hierarchy paths, and every ordering of the same
\* records gives the same nodes with the same children and the same flat
\* value sets.
C18_ShapeOrderIndependent ==
    Built =>
        /\ DOMAIN builtTree = PrefixesOf(PathsOf(arg))
        /\ \A dss \in Orderings(arg) :
              LET groups == buildFilterGroups(dss)
                  tree == groups[keyObject].values
              IN  /\ DOMAIN tree = DOMAIN builtTree
                  /\ \A q \in {<<>>} \cup DOMAIN tree :
                        childrenOf(tree, q) = childrenOf(builtTree, q)
                  /\ \A key \in FlatKeys :
                        groups[key].values = res.v[key].values

\* three records whose paths share the prefixes a and tools
C18_Witness ==
    /\ arg = <<CollTree[2], CollScene[1], CollTree[1]>>
    /\ Built
    /\ Cardinality(DOMAIN builtTree) = 6

\* C19: the values of each flat group are exactly the union of the records'
\* values for that field; every robot of a record with several robots is
\* among them.
C19_FlatUnion ==
    Built => \A key \in FlatKeys : res.v[key].values = ValuesOf(arg, key)

\* a record with two robots and a record with one
C19_Witness ==
    /\ arg = <<CollScene[3], CollScene[1]>>
    /\ Built
    /\ res.v[keyRobot].values = {arm1, arm2}
    /\ res.v[keyScene].values = {kitchen}

\* C20 (as claimed): on a collection with records that lack fields or have
\* an object entry without hierarchy, buildFilterGroups and
\* updateFilterCounts raise nothing, and the groups and the count cache
\* hold an entry only for a value some record carries.
C20_MalformedTolerated ==
    /\ res.kind # "TypeError"
    /\ Built =>
          /\ \A key \in FlatKeys : res.v[key].values \subseteq ValuesOf(arg, key)
          /\ DOMAIN builtTree \subseteq PrefixesOf(PathsOf(arg))
    /\ res.kind = "counts" =>
          DOMAIN res.v \subseteq
              UNION {{FilterIdOf(key, v) : v \in ValuesOf(arg, key)} :
                       key \in GroupKeys}

\* counting raised on a record whose object entry has no hierarchy
C20_Witness ==
    /\ arg = <<noHierarchyRecord, CollScene[2]>>
    /\ res.kind = "TypeError"

\* the segment values of the records of the pool, and one of no record
SegmentValues == {va, vb, vc, vd, tools, drill, <<"zz">>}
\* the paths of one to three segments
SegmentPaths == UNION {[1..n -> SegmentValues] : n \in 1..3}
\* the FilterIds of the pool's values and of values and keys of no record
CandidateIds ==
    {FilterIdOf(key, v) :
        key \in GroupKeys \cup {keyUnknown},
        v \in SegmentValues
              \cup {kitchen, lab, labColonX, arm1, arm2, grip, pick}}
Counted == res.kind = "counts"

\* C21: findHierarchyNode returns null for every path that does not lead to
\* a node of the tree, and the count served for a FilterId that the count
\* cache does not hold is 0.
C21_AbsenceSignal ==
    /\ Built =>
          \A p \in SegmentPaths \ DOMAIN builtTree :
              findHierarchyNode(builtTree, JoinPath(p)) = <<>>
    /\ Counted =>
          \A filterId \in CandidateIds \ DOMAIN res.v :
              servedCount(res.v, filterId) = 0

\* the tree a > {b, c > d} was counted: the path a>zz leaves the tree at its
\* second segment and object:zz is in no group, while object:a is counted
C21_Witness ==
    /\ arg = <<CollTree[1], CollTree[2]>>
    /\ Counted
    /\ findHierarchyNode(buildFilterGroups(arg)[keyObject].values,
                         absentPath) = <<>>
    /\ FilterIdOf(keyObject, <<"zz">>) \notin DOMAIN res.v
    /\ servedCount(res.v, FilterIdOf(keyObject, va)) = 2
    /\ servedCount(res.v, FilterIdOf(keyObject, <<"zz">>)) = 0

\* the rendered options of the groups built from arg
builtOptions == Options(buildFilterGroups(arg))
\* the records applyFilters('') returns when only the FilterId of o is
\* selected
isolated(o) == applyFilters(arg, {FilterIdOf(o[1], o[2])}, <<>>)

\* C22 (as claimed): for every value v of every group key k, the count of
\* k:v is the number of records applyFilters('') returns when k:v alone is
\* selected.
C22_CountIsIsolatedFilter ==
    Counted =>
        \A o \in builtOptions :
            res.v[FilterIdOf(o[1], o[2])] = Len(isolated(o))

\* the only record carries the scene lab:x: it is counted once, and
\* applyFilters returns nothing for the selection {scene:lab:x}
C22_Witness ==
    /\ arg = <<colonRecord>>
    /\ Counted
    /\ res.v[FilterIdOf(keyScene, labColonX)] = 1
    /\ isolated(<<keyScene, labColonX>>) = <<>>

\* the number of records of dss that carry value for the group key
carriers(dss, key, value) ==
    Cardinality({i \in 1..Len(dss) : value \in RecordValues(dss[i], key)})
SelectionOps ==
    {"toggle", "selectAllInGroup", "clearGroup", "selectAllChildren",
     "clearAllChildren", "reset"}

\* C23: while the record collection stays the same, a step that is a
\* selection mutation or a run of the debounce callback leaves the count
\* served for every FilterId as it was, and once the counts are cached the
\* count of every option is the number of records that carry its value,
\* whatever is selected.
C23_CountInvariance ==
    /\ [](tooltipElement =>
            \A o \in Options(filterGroups) :
                servedCount(filterCounts, FilterIdOf(o[1], o[2]))
                    = carriers(datasets, o[1], o[2]))
    /\ [][(lastOp'.op \in SelectionOps \/ dispatched' = "debounce") =>
            \A filterId \in CandidateIds \cup DOMAIN filterCounts :
                servedCount(filterCounts', filterId)
                    = servedCount(filterCounts, filterId)]_vars

\* the scene group was selected as a whole and the debounce callback has
\* recomputed the counts: pick is still counted twice
C23_Witness ==
    /\ tooltipElement
    /\ lastOp = [op |-> "selectAllInGroup", a |-> keyScene, b |-> <<>>]
    /\ dispatched = "debounce"
    /\ FilterIdOf(keyScene, lab) \in selectedFilters
    /\ servedCount(filterCounts, FilterIdOf(keyAction, pick)) = 2

\* the facet options of the groups of dss: a wrapper per value of a flat
\* group and per node of the tree
FacetOptions(dss) ==
    UNION {{<<key, v>> : v \in ValuesOf(dss, key)} : key \in FlatKeys}
    \cup {<<keyObject>> \o p : p \in PrefixesOf(PathsOf(dss))}
\* the place of a group in the declaration
GroupPlace(key) == indexOf(GroupOrder, key)
\* option x comes before option y of the hierarchical group in a depth-first
\* traversal with the siblings in lexicographic order
DepthFirstBefore(x, y) ==
    \/ Len(x) < Len(y) /\ SubSeq(y, 1, Len(x)) = x
    \/ \E i \in 2..Min(Len(x), Len(y)) :
          /\ SubSeq(x, 1, i - 1) = SubSeq(y, 1, i - 1)
          /\ localeCompare(x[i], y[i]) < 0
Searched == res.kind = "matches"

FinderOps == {"searchFilterOptions", "navigateFilterMatch", "clearFilterSearch"}
\* the match that is current
currentMatch == filterFinderMatches[filterFinderCurrentIndex + 1]
\* no search: no match, no current index, nothing hidden
Idle ==
    /\ filterFinderMatches = <<>>
    /\ filterFinderCurrentIndex = -1
    /\ searchHidden = {}

\* C25: after a call of searchFilterOptions that built a non-empty match
\* list the current index is 0.
C25_FirstMatchCurrent ==
    (lastOp.op = "searchFilterOptions" /\ filterFinderMatches # <<>>) =>
        filterFinderCurrentIndex = 0

\* the query B was typed over an earlier search: three matches, the first
\* of them current
C25_Witness ==
    /\ lastOp = [op |-> "searchFilterOptions", a |-> <<"B">>, b |-> <<>>]
    /\ Len(filterFinderMatches) = 3
    /\ filterFinderCurrentIndex = 0
    /\ selBefore = selectedFilters
    /\ <<keyObject, vb>> \notin collapsed

\* C26: with n > 0 matches navigateFilterMatch moves the current index from
\* i to (i + 1) mod n for 'next' and to (i - 1) mod n for 'prev' and keeps
\* the match list; with no match it changes neither the finder nor the
\* selection nor the debounce timer.
C26_NavigateWraps ==
    [][\A direction \in Directions :
          (NavigateButton(direction) /\ findFrame) =>
              LET n == Len(filterFinderMatches)
                  i == filterFinderCurrentIndex
              IN  IF n > 0
                  THEN /\ filterFinderCurrentIndex' =
                             IF direction = next THEN (i + 1) % n
                             ELSE (i + n - 1) % n
                       /\ filterFinderMatches' = filterFinderMatches
                  ELSE UNCHANGED <<finderVars, selectedFilters,
                                   pendingFilterUpdate, timers>>]_vars

\* 'prev' with three matches has made the last of them current
C26_Witness ==
    /\ lastOp = [op |-> "navigateFilterMatch", a |-> prev, b |-> <<>>]
    /\ Len(filterFinderMatches) = 3
    /\ filterFinderCurrentIndex = 2

\* C27: after a call of navigateFilterMatch on a non-empty match list no
\* container above the current match is collapsed and its wrapper is not
\* hidden, whatever the user collapsed since the search.
C27_CurrentRevealed ==
    [][\A direction \in Directions :
          (NavigateButton(direction) /\ findFrame /\ filterFinderMatches # <<>>) =>
              LET w == filterFinderMatches'[filterFinderCurrentIndex' + 1].element
              IN  /\ ancestorsOf(w) \cap collapsed' = {}
                  /\ \A n \in 1..Len(w) : SubSeq(w, 1, n) \notin searchHidden']_vars

\* the node Ba under b is current after 'next' and the containers of the
\* object group and of b are open
C27_Witness ==
    /\ lastOp = [op |-> "navigateFilterMatch", a |-> next, b |-> <<>>]
    /\ filterFinderCurrentIndex >= 0
    /\ currentMatch.element = <<keyObject, vb, vBa>>
    /\ collapsed \cap {<<keyObject>>, <<keyObject, vb>>} = {}

\* C28: after clearFilterSearch, and whenever the query is empty, the
\* match list is empty, no wrapper is hidden and the current index is -1.
C28_ReturnToIdle ==
    (finderInput = <<>> \/ lastOp.op = "clearFilterSearch") => Idle

\* the input was emptied again after a search had expanded the object group
C28_Witness ==
    /\ lastOp = [op |-> "searchFilterOptions", a |-> <<>>, b |-> <<>>]
    /\ finderInput = <<>>
    /\ Idle
    /\ <<keyObject>> \notin collapsed
    /\ selectedFilters # {}

\* C29: searchFilterOptions, navigateFilterMatch and clearFilterSearch
\* leave selectedFilters, pendingFilterUpdate and the timers as they were.
C29_NavigatorFrame ==
    [][((\/ \E query \in Queries : FinderInput(query)
         \/ \E direction \in Directions : NavigateButton(direction)
         \/ EscapeKey) /\ findFrame) =>
            UNCHANGED <<selectedFilters, pendingFilterUpdate, timers>>]_vars

\* a search was made while an option was selected and its debounce timer
\* was running
C29_Witness ==
    /\ lastOp.op \in FinderOps
    /\ selectedFilters # {}
    /\ pendingFilterUpdate # null
    /\ pendingFilterUpdate \in DOMAIN timers
    /\ timers[pendingFilterUpdate] > 0
    /\ timers[pendingFilterUpdate] < DebounceDelay

without(q, id) == SelectSeq(q, LAMBDA x : x # id)
ran(id) == [kind |-> "ran", v |-> <<id>>]

\* the callback of timer id with a listener that toggles an option
reentrantCallback(id, filterKey, filterValue) ==
    /\ id \in DOMAIN timers
    /\ timers[id] = 0
    /\ filterCounts' = IF tooltipElement THEN recount ELSE filterCounts
    /\ LET filterId == FilterIdOf(filterKey, filterValue)
           sch == scheduleFilterUpdate([pending |-> pendingFilterUpdate,
                                        timers |-> clearTimeout(timers, id)])
       IN  /\ selectedFilters' =
                 IF filterId \in selectedFilters
                 THEN selectedFilters \ {filterId}
                 ELSE selectedFilters \cup {filterId}
           /\ timers' = sch.timers
           /\ arg' = Append(without(arg, id), sch.pending)
    /\ res' = ran(id)
    /\ pendingFilterUpdate' = null
    /\ lastOp' = [op |-> "toggle", a |-> filterKey, b |-> filterValue]
    /\ ret' = undefined
    /\ selBefore' = selectedFilters
    /\ trig' = 1
    /\ sinceMut' = 0
    /\ sigSinceMut' = 0
    /\ sched' = [by |-> "schedule",
                 cleared |-> pendingFilterUpdate \in (DOMAIN timers) \ {id}]
    /\ dispatched' = "reentrant"
    /\ twice' = <<>>
    /\ UNCHANGED <<loaded, tooltipElement>>

\* the callback of timer id with listeners that leave the selection alone
plainCallback(id) ==
    /\ debounceCallback(id)
    /\ arg' = without(arg, id)
    /\ res' = ran(id)

ReentryOptions == {<<keyScene, kitchen>>, <<keyRobot, arm1>>}
ListenerOptions == {<<keyScene, lab>>}

ReentryInit == Init /\ loaded = "scene"

reentryFrame == UNCHANGED <<tipVars, histVars, finderVars>>

\* setTimeout can hand out an id of TimerIds
roomForTimer ==
    pendingFilterUpdate \in DOMAIN timers \/ DOMAIN timers # TimerIds

ReentryNext ==
    \/ \E kv \in ReentryOptions :
          roomForTimer /\ toggleFilterSelection(kv[1], kv[2]) /\ panelFrame
    \/ resetFilters /\ panelFrame
    \/ Tick /\ panelFrame
    \/ \E id \in TimerIds : plainCallback(id) /\ reentryFrame
    \/ \E id \in TimerIds : \E kv \in ListenerOptions :
          reentrantCallback(id, kv[1], kv[2]) /\ reentryFrame

\* the event loop keeps running: time passes and every due callback runs
ReentrySpec ==
    /\ ReentryInit
    /\ [][ReentryNext]_vars
    /\ WF_vars(Tick /\ panelFrame)
    /\ \A id \in TimerIds :
          WF_vars(\/ plainCallback(id) /\ reentryFrame
                  \/ \E kv \in ListenerOptions :
                        reentrantCallback(id, kv[1], kv[2]) /\ reentryFrame)

\* C31: a callback run whose listener toggles an option ends with the
\* timer the listener set still having its whole delay to run and with no
\* signal dispatched since that toggle; a timer set inside a listener stays
\* scheduled until it runs, and its callback does run.
C31_ReentrantSchedulesNewCycle ==
    /\ [][dispatched' = "reentrant" =>
              /\ arg' # <<>>
              /\ arg'[Len(arg')] \in DOMAIN timers'
              /\ timers'[arg'[Len(arg')]] = DebounceDelay
              /\ sigSinceMut' = 0]_vars
    /\ [](\A i \in 1..Len(arg) : arg[i] \in DOMAIN timers)
    /\ \A id \in TimerIds :
          (\E i \in 1..Len(arg) : arg[i] = id) ~>
              (dispatched \in {"debounce", "reentrant"} /\ res = ran(id))

\* the listener has toggled scene:lab on inside the callback and the timer
\* it set has 75 ms left
C31_Witness ==
    /\ arg # <<>>
    /\ arg[1] \in DOMAIN timers
    /\ timers[arg[1]] = DebounceDelay - TickMs
    /\ FilterIdOf(keyScene, lab) \in selectedFilters
    /\ lastOp = [op |-> "toggle", a |-> keyScene, b |-> lab]

\* C36: pendingFilterUpdate is non-null exactly when a debounce timer is
\* set and has not run, and no other debounce timer is set.
C36_PendingIffTimer ==
    /\ pendingFilterUpdate # null <=> DOMAIN timers # {}
    /\ DOMAIN timers \subseteq {pendingFilterUpdate}

\* after the callback whose listener toggled an option: no handle, and a
\* timer with its whole delay to run
C36_Witness ==
    /\ dispatched = "reentrant"
    /\ pendingFilterUpdate = null
    /\ \E id \in DOMAIN timers : timers[id] = DebounceDelay

(***************************************************************************)
(* The filter panel on a tree with a repeated segment value.               *)
(***************************************************************************)
RepInit ==
    /\ loaded = "rep"
    /\ panelStart
    /\ auxInit
    /\ arg = <<>>
    /\ res = undefined

RepOptions == {<<keyObject, vc>>, <<keyScene, lab>>}

RepNext ==
    \/ \E kv \in RepOptions :
          toggleFilterSelection(kv[1], kv[2]) /\ panelFrame
    \/ \E path \in Paths(GroupsRep) :
          selectAllChildrenInHierarchy(keyObject, path) /\ panelFrame
    \/ \E path \in Paths(GroupsRep) :
          clearAllChildrenInHierarchy(keyObject, path) /\ panelFrame
    \/ selectAllInGroup(keyObject) /\ panelFrame
    \/ resetFilters /\ panelFrame
    \/ Tick /\ panelFrame
    \/ \E id \in TimerIds : debounceCallback(id) /\ callbackFrame

RepSpec == RepInit /\ [][RepNext]_vars

\* C32: after selectAllChildrenInHierarchy(object, path) with a path that
\* is the '>'-joined path of a node of the tree, the FilterId of every
\* leaf-flagged node below that node is selected; after
\* clearAllChildrenInHierarchy none of them is.
C32_PathResolution ==
    (lastOp.a = keyObject /\ NodesAt(lastOp.b) # {}) =>
        /\ lastOp.op = "selectAllChildren" =>
              CoveredUnder(keyObject, lastOp.b) \subseteq selectedFilters
        /\ lastOp.op = "clearAllChildren" =>
              CoveredUnder(keyObject, lastOp.b) \cap selectedFilters = {}

\* selectAllChildrenInHierarchy(object, 'a>a') has returned and the leaf c
\* below a > a is not selected
C32_Witness ==
    /\ loaded = "rep"
    /\ lastOp = [op |-> "selectAllChildren", a |-> keyObject,
                 b |-> JoinPath(<<va, va>>)]
    /\ <<va, va, vc>> \in LeafFlagged
    /\ FilterIdOf(keyObject, vc) \notin selectedFilters
    /\ trig = 0

\* the records of dss with a hierarchy whose segment at place n is v
recordsWithAt(dss, v, n) ==
    {i \in 1..Len(dss) :
        /\ Has(dss[i], "objects")
        /\ \E j \in 1..Len(dss[i].objects) :
              /\ Has(dss[i].objects[j], "hierarchy")
              /\ Len(dss[i].objects[j].hierarchy) >= n
              /\ dss[i].objects[j].hierarchy[n] = v}
\* the records of dss with a hierarchy that has the segment v at any place
recordsWith(dss, v) ==
    UNION {recordsWithAt(dss, v, n) : n \in 1..3}

\* C33 (as claimed): the count of a node of the tree is the number of
\* records with a hierarchy that has the node's value at the node's place.
C33_CountAtPosition ==
    Counted =>
        \A p \in PrefixesOf(PathsOf(arg)) :
            res.v[FilterIdOf(keyObject, lastOf(p))]
                = Cardinality(recordsWithAt(arg, lastOf(p), Len(p)))

\* C33 (amended): the count of a node of the tree is the number of records
\* with a hierarchy that has the node's value at any place, last or not;
\* nodes with the same value have the same count.
C33_CountAnyDepth ==
    Counted =>
        \A p \in PrefixesOf(PathsOf(arg)) :
            res.v[FilterIdOf(keyObject, lastOf(p))]
                = Cardinality(recordsWith(arg, lastOf(p)))

\* the records with the paths b > Ba, a and b > a were counted: b, never a
\* last segment, counts 2, and so does a, a root and a child of b
C33_Witness ==
    /\ Counted
    /\ PathsOf(arg) = {<<vb, vBa>>, <<va>>, <<vb, va>>}
    /\ res.v[FilterIdOf(keyObject, vb)] = 2
    /\ res.v[FilterIdOf(keyObject, va)] = 2
    /\ res.v[FilterIdOf(keyObject, vBa)] = 1

(***************************************************************************)
(* The count cache when the manager is given another collection and        *)
(* buildFilterGroups() runs again.                                         *)
(*   res   undefined, or the count the last tooltip displayed              *)
(***************************************************************************)
\* the containers renderFilterGroups leaves collapsed, per collection
CollapsedScene == Containers(CollScene) \ {<<GroupOrder[1]>>}
CollapsedTree == Containers(CollTree) \ {<<GroupOrder[1]>>}

\* this.datasets is replaced by collection c and buildFilterGroups() runs:
\* the groups are rebuilt and rendered afresh; no other field is written
reload(c) ==
    /\ loaded' = c
    /\ collapsed' = IF c = "scene" THEN CollapsedScene ELSE CollapsedTree
    /\ searchHidden' = {}
    /\ lastOp' = [op |-> "buildFilterGroups", a |-> <<c>>, b |-> <<>>]
    /\ ret' = undefined
    /\ selBefore' = selectedFilters
    /\ trig' = 0
    /\ dispatched' = "none"
    /\ twice' = <<>>
    /\ UNCHANGED <<selectedFilters, pendingFilterUpdate, timers, sinceMut,
                   sigSinceMut, sched, tipVars, histVars, callVars, countVars,
                   filterFinderMatches, filterFinderCurrentIndex, finderInput>>

\* the tooltip callback displays this.filterCounts.get(filterId) || 0
serveTooltip(id) ==
    /\ tooltipCallback(id)
    /\ res' = [kind |-> "number",
               v |-> servedCount(filterCounts, tipTimers[id].filterId)]
    /\ UNCHANGED <<histVars, arg, countVars, finderVars>>

\* the scene options that are hovered while they are rendered
HoverOptions == {<<keyScene, lab>>, <<keyScene, kitchen>>}

\* before the dropdown is first opened
ReloadInit ==
    /\ loaded = "scene"
    /\ panelStart
    /\ tooltipTimeout = null /\ tipTimers = <<>> /\ tooltipShown = <<>>
    /\ userOn = {} /\ lastOn = {}
    /\ tooltipElement = FALSE
    /\ filterCounts = <<>>
    /\ finderInit
    /\ arg = <<>> /\ res = undefined

ReloadNext ==
    \/ initializeTooltips /\ countFrame
    \/ \E c \in Collections : reload(c)
    \/ \E kv \in HoverOptions \cap Options(filterGroups) :
          tooltipElement /\ showTooltip(kv[1], kv[2]) /\ tipFrame
    \/ \E id \in TimerIds : serveTooltip(id)
    \/ TipTick /\ tipFrame
    \/ toggleFilterSelection(keyRobot, arm1) /\ panelFrame
    \/ \E id \in TimerIds : debounceCallback(id) /\ callbackFrame

ReloadSpec == ReloadInit /\ [][ReloadNext]_vars

\* C34: the count a tooltip displays is the number of records of the
\* collection the manager holds at that moment that carry the option's
\* value, also after the collection was replaced and the groups rebuilt.
C34_CountsFollowCollection ==
    dispatched = "tooltip" =>
        \E o \in Options(filterGroups) :
            /\ tooltipShown = FilterIdOf(o[1], o[2])
            /\ res.v = carriers(datasets, o[1], o[2])

\* the counts were cached for the first collection, the second was loaded,
\* and the tooltip of scene:lab, carried by two of its records, displays 0
C34_Witness ==
    /\ loaded = "tree"
    /\ dispatched = "tooltip"
    /\ tooltipShown = FilterIdOf(keyScene, lab)
    /\ carriers(datasets, keyScene, lab) = 2
    /\ res.v = 0

(***************************************************************************)
(* The second pass of a search, under FindSpec.                            *)
(***************************************************************************)
\* option o is a hit of the query: its label contains it, whatever the case
isHit(o, query) == includes(toLowerCase(labelOf(o)), toLowerCase(query))

\* the hits of the query that wrapper w is or holds
hitsIn(w, query) ==
    {i \in 1..Len(renderedOptions) :
        holds(w, renderedOptions[i]) /\ isHit(renderedOptions[i], query)}

\* C35: when searchFilterOptions has run with a non-empty query, exactly the
\* wrappers that neither are a hit nor hold one are hidden; every other wrapper is shown and no
\* container or group above it is left collapsed, whatever was collapsed
\* before the search.
C35_HiddenIffNoHit ==
    (lastOp.op = "searchFilterOptions" /\ lastOp.a # <<>>) =>
        \A w \in renderedWrappers :
            /\ w \in searchHidden <=> hitsIn(w, lastOp.a) = {}
            /\ hitsIn(w, lastOp.a) # {} => ancestorsOf(w) \cap collapsed = {}

\* the search for "B" shows the node Ba and its parent b, hides the node a
\* and the robot group, and has opened the containers above Ba
C35_Witness ==
    /\ lastOp = [op |-> "searchFilterOptions", a |-> <<"B">>, b |-> <<>>]
    /\ {<<keyObject, va>>, <<keyRobot>>, <<keyRobot, vc>>} \subseteq searchHidden
    /\ searchHidden \cap {<<keyObject>>, <<keyObject, vb>>,
                          <<keyObject, vb, vBa>>} = {}
    /\ collapsed \cap {<<keyObject>>, <<keyObject, vb>>} = {}

\* C37: in every state reached by searches, navigation, clearing and
\* selection the current index is -1 exactly when the match list is empty,
\* and otherwise lies in 0 .. number of matches - 1.
C37_IndexInRange ==
    /\ filterFinderCurrentIndex = -1 <=> filterFinderMatches = <<>>
    /\ filterFinderMatches # <<>> =>
           /\ 0 <= filterFinderCurrentIndex
           /\ filterFinderCurrentIndex < Len(filterFinderMatches)

\* with an option selected by Enter, 'next' has gone from the last of three
\* matches round to the first
C37_Witness ==
    /\ lastOp = [op |-> "navigateFilterMatch", a |-> next, b |-> <<>>]
    /\ Len(filterFinderMatches) = 3
    /\ filterFinderCurrentIndex = 0
    /\ selectedFilters # {}

(***************************************************************************)
(* The FilterId round trip, under BuildSpec.                               *)
(***************************************************************************)
\* the pair that `const [key, value] = filterId.split(':')` recovers
recovered(filterId) ==
    <<split(filterId, COLON)[1], split(filterId, COLON)[2]>>

\* the records of dss that have value for the group key
having(dss, key, value) ==
    SelectSeq(dss, LAMBDA ds : value \in RecordValues(ds, key))

\* C38 (as claimed): for every option of every group, also one whose value
\* contains ':', the pair recovered from its FilterId is its key and its
\* value, and applyFilters('') with that FilterId alone selected returns
\* exactly the records that have the value for the key.
C38_FilterIdRoundTrip ==
    Built =>
        \A o \in builtOptions :
            /\ recovered(FilterIdOf(o[1], o[2])) = <<o[1], o[2]>>
            /\ isolated(o) = having(arg, o[1], o[2])

\* the same for the options whose value has no ':', on the collections
\* whose objects all have a hierarchy
roundTripWithoutColon ==
    (Built /\ noHierarchyRecord \notin Range(arg)) =>
        \A o \in {x \in builtOptions : COLON \notin Range(x[2])} :
            /\ recovered(FilterIdOf(o[1], o[2])) = <<o[1], o[2]>>
            /\ isolated(o) = having(arg, o[1], o[2])

\* the groups of the record with scene lab:x are built: the FilterId
\* scene:lab:x gives back the value lab, and the filter returns no record
C38_Witness ==
    /\ arg = <<colonRecord>>
    /\ Built
    /\ recovered(FilterIdOf(keyScene, labColonX)) = <<keyScene, <<"lab">> >>
    /\ isolated(<<keyScene, labColonX>>) = <<>>
    /\ having(arg, keyScene, labColonX) = <<colonRecord>>

(***************************************************************************)
(* The filter panel with the class 'selected' of its option elements, on a *)
(* tree with one leaf value under two parents.                             *)
(*   arg   the option elements with data-filter and data-value, and        *)
(*         this.filterOptionCache as renderFilterGroups filled it          *)
(*   res   the option elements that carry the class 'selected'             *)
(***************************************************************************)
\* the option elements with data-filter and data-value, in document order:
\* the options that are not hierarchy-name-only
selectable(options, containers) ==
    SelectSeq(options, LAMBDA o : o \notin containers)

\* the FilterId the click handler of option element e builds
idOf(e) == FilterIdOf(datasetFilter(e), datasetValue(e))

\* this.filterOptionCache after renderFilterGroups: set(filterId, option)
\* for each option in document order, a later option replacing an earlier
\* one with the same FilterId
filterOptionCache(os) ==
    [filterId \in {idOf(os[i]) : i \in 1..Len(os)} |->
        os[CHOOSE i \in 1..Len(os) :
              /\ idOf(os[i]) = filterId
              /\ \A j \in 1..Len(os) : idOf(os[j]) = filterId => j <= i]]

\* the rendered option elements a click can select
optionElements == Range(arg.options)

\* the elements the cache gives for the FilterIds ids
cached(ids) == {arg.cache[filterId] : filterId \in ids \cap DOMAIN arg.cache}

marks(elements) == [kind |-> "marks", v |-> elements]

\* updateFilterOptionStyles(): every cached element is marked iff its
\* FilterId is selected
updateFilterOptionStyles(elements, sel) ==
    (elements \ cached(DOMAIN arg.cache)) \cup cached(sel)

\* a click on the option element e: toggleFilterSelection with e as the
\* optionElement
optionClick(e) ==
    /\ toggleFilterSelection(datasetFilter(e), datasetValue(e))
    /\ res' = marks(IF idOf(e) \in selectedFilters THEN res.v \ {e}
                    ELSE res.v \cup {e})

\* a click on the close button of the tag of filterId
tagClose(filterId) ==
    /\ removeFilterTagById(filterId)
    /\ res' = marks(res.v \ cached({filterId}))

\* the bulk operations mark or unmark the cached element of each FilterId
\* they add or delete
bulkMarks ==
    res' = marks((res.v \cup cached(selectedFilters' \ selectedFilters))
                    \ cached(selectedFilters \ selectedFilters'))

resetMarks ==
    res' = marks(updateFilterOptionStyles(res.v, selectedFilters'))

MarkInit ==
    /\ loaded = "twin"
    /\ panelStart
    /\ auxInit
    /\ LET os == selectable(allOptions(datasets), Containers(datasets))
       IN  arg = [options |-> os, cache |-> filterOptionCache(os)]
    /\ res = marks({})

markFrame == UNCHANGED <<tipVars, histVars, countVars, finderVars, arg>>

MarkNext ==
    \/ \E e \in optionElements : optionClick(e) /\ markFrame
    \/ \E filterId \in selectedFilters : tagClose(filterId) /\ markFrame
    \/ \E groupKey \in {keyScene, keyObject} :
          selectAllInGroup(groupKey) /\ bulkMarks /\ markFrame
    \/ \E groupKey \in {keyScene, keyObject} :
          clearGroup(groupKey) /\ bulkMarks /\ markFrame
    \/ \E p \in {JoinPath(<<va>>), JoinPath(<<vb>>)} :
          selectAllChildrenInHierarchy(keyObject, p) /\ bulkMarks /\ markFrame
    \/ \E p \in {JoinPath(<<va>>), JoinPath(<<vb>>)} :
          clearAllChildrenInHierarchy(keyObject, p) /\ bulkMarks /\ markFrame
    \/ resetFilters /\ resetMarks /\ markFrame
    \/ Tick /\ panelFrame
    \/ \E id \in TimerIds : debounceCallback(id) /\ callbackFrame

MarkSpec == MarkInit /\ [][MarkNext]_vars

\* C39 (as claimed): after any sequence of option clicks, tag removals,
\* bulk selections and clearings and resets, every option element carries
\* 'selected' exactly when its FilterId is selected, also the two elements
\* of a leaf value that occurs under two parents.
C39_SelectionMirrored ==
    res.kind = "marks" =>
        \A e \in optionElements : e \in res.v <=> idOf(e) \in selectedFilters

\* the same for the option elements that share their FilterId with no other
mirroredWhereUnique ==
    res.kind = "marks" =>
        \A e \in {x \in optionElements :
                     \A y \in optionElements : idOf(y) = idOf(x) => y = x} :
            e \in res.v <=> idOf(e) \in selectedFilters

\* the leaf c under a was clicked: object:c is selected, the clicked
\* element is marked and the leaf c under b is not
C39_Witness ==
    /\ loaded = "twin"
    /\ lastOp.op = "toggle"
    /\ selectedFilters = {FilterIdOf(keyObject, vc)}
    /\ res = marks({<<keyObject, va, vc>>})

\* the nodes of the built tree that the test `node.isLeaf` accepts
flaggedLeaves == {p \in DOMAIN builtTree : builtTree[p]}
\* those that `node.isLeaf || node.children.size === 0` accepts
flaggedOrChildless ==
    {p \in DOMAIN builtTree : builtTree[p] \/ childrenOf(builtTree, p) = {}}

\* C40: in the tree buildFilterGroups produces every node without children
\* has isLeaf = true, so the leaf test of selectAllInHierarchy and that of
\* selectLeafNodesRecursive / clearLeafNodesRecursive accept the same nodes.
C40_ChildlessIsLeaf ==
    Built =>
        /\ \A p \in DOMAIN builtTree :
              childrenOf(builtTree, p) = {} => builtTree[p]
        /\ flaggedLeaves = flaggedOrChildless

\* a built tree with a childless node and with a leaf-flagged node that has
\* children
C40_Witness ==
    /\ Built
    /\ \E p \in DOMAIN builtTree : childrenOf(builtTree, p) = {}
    /\ \E p \in flaggedLeaves : childrenOf(builtTree, p) # {}

====
